----------------------------- MODULE Spec2Model -----------------------------
(***************************************************************************)
(* A model of the tool-augmented conversation orchestrator (OpenAIAgent)   *)
(* and of its tool protocol client (MCPClient).                            *)
(*                                                                         *)
(* Texts are sequences of lexemes: a lexeme is an indivisible group of     *)
(* characters, and no lexeme of the alphabet used here is a concatenation  *)
(* of others, so two texts are the same string exactly when they are the   *)
(* same sequence.  JavaScript values are tagged tuples:                    *)
(*   <<"null">>  <<"bool", b>>  <<"num", n>>  <<"str", text>>              *)
(*   <<"arr", <<v1, ..., vn>> >>                                           *)
(*   <<"obj", << <<key1, v1>>, ..., <<keyn, vn>> >> >>   (keys are texts,  *)
(*   members in the property order of the JavaScript object).              *)
(***************************************************************************)
EXTENDS Integers, Sequences, FiniteSets, TLC

(***************************************************************************)
(* Lexemes.                                                                *)
(***************************************************************************)
QUOTE == "\""
SPACE == " "

\* number lexemes and the number each denotes ("1.0" denotes 1)
NumLit == [l \in {"0", "1", "2", "1.0"} |->
             IF l = "0" THEN 0 ELSE IF l = "2" THEN 2 ELSE 1]

\* Number.prototype.toString for the numbers of the model
NumStr(n) == IF n = 0 THEN "0" ELSE IF n = 1 THEN "1" ELSE "2"

\* a property key that is a canonical array index ("0", "1", "2", ...)
IsIndexKey(k) == Len(k) = 1 /\ k[1] \in {"0", "1", "2"}

IndexOf(k) == NumLit[k[1]]

(***************************************************************************)
(* JavaScript objects: own enumerable string-keyed properties, index keys  *)
(* first in ascending order, then the other keys in insertion order.       *)
(***************************************************************************)
HasKey(m, k) == \E j \in 1..Len(m) : m[j][1] = k

\* the position a new key k takes in the member list m
InsertPos(m, k) ==
  IF IsIndexKey(k)
    THEN 1 + Cardinality({j \in 1..Len(m) :
                            IsIndexKey(m[j][1]) /\ IndexOf(m[j][1]) < IndexOf(k)})
    ELSE Len(m) + 1

\* obj[k] = v
ObjSet(m, k, v) ==
  IF HasKey(m, k)
    THEN [j \in 1..Len(m) |-> IF m[j][1] = k THEN <<k, v>> ELSE m[j]]
    ELSE LET p == InsertPos(m, k)
         IN  SubSeq(m, 1, p - 1) \o << <<k, v>> >> \o SubSeq(m, p, Len(m))

(***************************************************************************)
(* JSON.parse: a recursive-descent parser over the lexemes.  Each Parse*   *)
(* operator takes the text and a position and returns                      *)
(* [ok, v, i]: whether a value was read, the value, the position after it. *)
(***************************************************************************)
Fail == [ok |-> FALSE, v |-> <<"null">>, i |-> 0]

RECURSIVE SkipWS(_, _)
SkipWS(t, i) == IF i <= Len(t) /\ t[i] = SPACE THEN SkipWS(t, i + 1) ELSE i

\* the position of the closing quote of a string opened before position i
RECURSIVE CloseQuote(_, _)
CloseQuote(t, i) ==
  IF i > Len(t) THEN 0
  ELSE IF t[i] = QUOTE THEN i
  ELSE CloseQuote(t, i + 1)

ParseString(t, i) ==
  IF i <= Len(t) /\ t[i] = QUOTE
    THEN LET c == CloseQuote(t, i + 1)
         IN  IF c = 0 THEN Fail
             ELSE [ok |-> TRUE, v |-> <<"str", SubSeq(t, i + 1, c - 1)>>, i |-> c + 1]
    ELSE Fail

RECURSIVE ParseValue(_, _)
RECURSIVE ParseMembers(_, _, _)
RECURSIVE ParseElements(_, _, _)

\* after "{" or ",": "key" : value, then "," or "}"; m holds the members so far
ParseMembers(t, i, m) ==
  LET k == ParseString(t, SkipWS(t, i))
  IN  IF ~k.ok THEN Fail
      ELSE LET c == SkipWS(t, k.i)
           IN  IF c > Len(t) \/ t[c] # ":" THEN Fail
               ELSE LET e == ParseValue(t, SkipWS(t, c + 1))
                    IN  IF ~e.ok THEN Fail
                        ELSE LET n  == SkipWS(t, e.i)
                                 m2 == ObjSet(m, k.v[2], e.v)
                             IN  IF n > Len(t) THEN Fail
                                 ELSE IF t[n] = "}"
                                   THEN [ok |-> TRUE, v |-> <<"obj", m2>>, i |-> n + 1]
                                 ELSE IF t[n] = ","
                                   THEN ParseMembers(t, n + 1, m2)
                                 ELSE Fail

\* after "[" or ",": value, then "," or "]"; a holds the elements so far
ParseElements(t, i, a) ==
  LET e == ParseValue(t, SkipWS(t, i))
  IN  IF ~e.ok THEN Fail
      ELSE LET n == SkipWS(t, e.i)
           IN  IF n > Len(t) THEN Fail
               ELSE IF t[n] = "]"
                 THEN [ok |-> TRUE, v |-> <<"arr", Append(a, e.v)>>, i |-> n + 1]
               ELSE IF t[n] = ","
                 THEN ParseElements(t, n + 1, Append(a, e.v))
               ELSE Fail

ParseValue(t, i) ==
  IF i > Len(t) THEN Fail
  ELSE IF t[i] = "null" THEN [ok |-> TRUE, v |-> <<"null">>, i |-> i + 1]
  ELSE IF t[i] = "true" THEN [ok |-> TRUE, v |-> <<"bool", TRUE>>, i |-> i + 1]
  ELSE IF t[i] = "false" THEN [ok |-> TRUE, v |-> <<"bool", FALSE>>, i |-> i + 1]
  ELSE IF t[i] \in DOMAIN NumLit
    THEN [ok |-> TRUE, v |-> <<"num", NumLit[t[i]]>>, i |-> i + 1]
  ELSE IF t[i] = QUOTE THEN ParseString(t, i)
  ELSE IF t[i] = "{"
    THEN LET n == SkipWS(t, i + 1)
         IN  IF n <= Len(t) /\ t[n] = "}"
               THEN [ok |-> TRUE, v |-> <<"obj", <<>> >>, i |-> n + 1]
               ELSE ParseMembers(t, i + 1, <<>>)
  ELSE IF t[i] = "["
    THEN LET n == SkipWS(t, i + 1)
         IN  IF n <= Len(t) /\ t[n] = "]"
               THEN [ok |-> TRUE, v |-> <<"arr", <<>> >>, i |-> n + 1]
               ELSE ParseElements(t, i + 1, <<>>)
  ELSE Fail

\* JSON.parse(text): [ok |-> TRUE, v |-> value], or ok = FALSE (SyntaxError)
JSON_parse(t) ==
  LET r == ParseValue(t, SkipWS(t, 1))
  IN  IF r.ok /\ SkipWS(t, r.i) = Len(t) + 1
        THEN [ok |-> TRUE, v |-> r.v]
        ELSE [ok |-> FALSE, v |-> <<"null">>]

(***************************************************************************)
(* JSON.stringify(value) without indentation.                              *)
(***************************************************************************)
RECURSIVE JSON_stringify(_)
RECURSIVE StringifyMembers(_, _)
RECURSIVE StringifyElements(_, _)

StringifyMembers(m, j) ==
  IF j > Len(m) THEN <<>>
  ELSE (IF j > 1 THEN <<",">> ELSE <<>>)
       \o <<QUOTE>> \o m[j][1] \o <<QUOTE, ":">> \o JSON_stringify(m[j][2])
       \o StringifyMembers(m, j + 1)

StringifyElements(a, j) ==
  IF j > Len(a) THEN <<>>
  ELSE (IF j > 1 THEN <<",">> ELSE <<>>)
       \o JSON_stringify(a[j]) \o StringifyElements(a, j + 1)

JSON_stringify(v) ==
  CASE v[1] = "null" -> <<"null">>
    [] v[1] = "bool" -> IF v[2] THEN <<"true">> ELSE <<"false">>
    [] v[1] = "num"  -> <<NumStr(v[2])>>
    [] v[1] = "str"  -> <<QUOTE>> \o v[2] \o <<QUOTE>>
    [] v[1] = "arr"  -> <<"[">> \o StringifyElements(v[2], 1) \o <<"]">>
    [] v[1] = "obj"  -> <<"{">> \o StringifyMembers(v[2], 1) \o <<"}">>

(***************************************************************************)
(* Helpers to write JavaScript values and texts.                           *)
(***************************************************************************)
Str(t) == <<"str", t>>
Obj(m) == <<"obj", m>>

\* value.key of a JavaScript value (undefined when it has no such property)
Get(v, k) ==
  IF v[1] = "obj" /\ HasKey(v[2], k)
    THEN LET j == CHOOSE j \in 1..Len(v[2]) : v[2][j][1] = k IN v[2][j][2]
    ELSE <<"undefined">>

\* typeof v === 'string'
IsString(v) == v[1] = "str"

\* a thrown Error
Err(name, message) == [name |-> name, message |-> message]

\* error?.message || String(error)  (String(error) of an Error with an empty
\* message is its name)
ErrorText(e) == IF e.message # <<>> THEN e.message ELSE <<e.name>>

\* the outcome of a call: a returned value or a thrown error
Returned(v) == [threw |-> FALSE, v |-> v, e |-> Err("", <<>>)]
Threw(e)    == [threw |-> TRUE, v |-> <<"undefined">>, e |-> e]
NoOutcome   == [threw |-> FALSE, v |-> <<"none">>, e |-> Err("", <<>>)]

(***************************************************************************)
(* MCPClient                                                               *)
(***************************************************************************)
NotConnected == Err("Error", <<"Not connected to MCP server">>)

\* a decoding that hands the text of a text item back without parsing it
CallToolDecodeNoParse(response) ==
  LET list == Get(response, <<"content">>)
  IN  IF list[1] = "arr" /\ Len(list[2]) > 0
        THEN LET content == list[2][1]
             IN  IF Get(content, <<"type">>) = Str(<<"text">>)
                   THEN Get(content, <<"text">>)
                   ELSE content
        ELSE response

\* MCPClient.callTool, lines 136-151: the value returned for a response of
\* the host
CallToolDecode(response) ==
  LET list == Get(response, <<"content">>)
  IN  IF list[1] = "arr" /\ Len(list[2]) > 0
        THEN LET content == list[2][1]
             IN  IF Get(content, <<"type">>) = Str(<<"text">>)
                   THEN LET text == Get(content, <<"text">>)[2]
                            p    == JSON_parse(text)
                        IN  IF p.ok THEN p.v ELSE Str(text)
                   ELSE content
        ELSE response

\* MCPClient.callTool, lines 129-155, once the host has answered: the
\* host's error is rethrown, its response is decoded
CallToolOutcome(host) ==
  IF host.threw THEN Threw(host.e) ELSE Returned(CallToolDecode(host.v))

(***************************************************************************)
(* The environment: what the tool host and the completion endpoint answer. *)
(***************************************************************************)
Lit(w) == <<QUOTE, w, QUOTE>>

\* a response of the host holding the content items `items`
Response(items) == Obj(<< <<<<"content">>, <<"arr", items>>>> >>)

TextItem(t) == Obj(<< <<<<"type">>, Str(<<"text">>)>>, <<<<"text">>, Str(t)>> >>)

ImageItem == Obj(<< <<<<"type">>, Str(<<"image">>)>>, <<<<"data">>, Str(<<"AAAA">>)>> >>)

\* objects a tool may return: {"text":"echo: x"}, {}, {"a":1,"b":{"ok":true}},
\* {"1":null,"a":[1,"x"]}
SampleObjects ==
  { Obj(<< <<<<"text">>, Str(<<"echo", ":", SPACE, "x">>)>> >>),
    Obj(<<>>),
    Obj(<< <<<<"a">>, <<"num", 1>>>>,
           <<<<"b">>, Obj(<< <<<<"ok">>, <<"bool", TRUE>>>> >>)>> >>),
    Obj(<< <<<<"1">>, <<"null">>>>,
           <<<<"a">>, <<"arr", << <<"num", 1>>, Str(<<"x">>) >> >> >> >>) }

EchoResult == Obj(<< <<<<"text">>, Str(<<"echo", ":", SPACE, "x">>)>> >>)

\* texts that are not JSON: plain words, a truncated object, an empty text
NonJSONTexts ==
  { <<"Navigated", SPACE, "to", SPACE, "page">>,
    <<"{">> \o Lit("text") \o <<":">>,
    <<>> }

\* texts that are JSON but not the encoding JSON.stringify gives, or not of
\* an object: { "a" : 1.0 }, {"a":1,"a":2}, "hi", 2
OtherJSONTexts ==
  { <<"{", SPACE>> \o Lit("a") \o <<SPACE, ":", SPACE, "1.0", SPACE, "}">>,
    <<"{">> \o Lit("a") \o <<":", "1", ",">> \o Lit("a") \o <<":", "2", "}">>,
    Lit("hi"),
    <<"2">> }

\* a result by which the host reports that the tool failed:
\* {"content":[{"type":"text","text":"Tool failed"}],"isError":true}
ToolErrorResponse ==
  Obj(<< <<<<"content">>, <<"arr", <<TextItem(<<"Tool", SPACE, "failed">>)>>>>>>,
         <<<<"isError">>, <<"bool", TRUE>>>> >>)

HostErrors ==
  { Err("McpError", <<"MCP error -32602: tool failed">>),
    Err("Error", <<>>) }

\* everything the host may answer to one call
HostOutcomes ==
  { Returned(Response(<<TextItem(JSON_stringify(v))>>)) : v \in SampleObjects }
    \cup { Returned(Response(<<TextItem(t)>>)) : t \in NonJSONTexts \cup OtherJSONTexts }
    \cup { Returned(Response(<<ImageItem, TextItem(JSON_stringify(EchoResult))>>)),
           Returned(Response(<<TextItem(<<"1">>), TextItem(<<"2">>)>>)),
           Returned(Response(<<>>)),
           Returned(Obj(<<>>)),
           Returned(ToolErrorResponse) }
    \cup { Threw(e) : e \in HostErrors }

\* the answer of the nominal run: the echo tool's {"text":"echo: x"}
NominalOutcome == Returned(Response(<<TextItem(JSON_stringify(EchoResult))>>))

\* the tool catalog of the host (the names are what the model keeps)
Catalog == <<"echo", "browser_snapshot">>

\* what the host may answer to a list request: its catalog, its catalog
\* after a tool was withdrawn, an error
ListOutcomes ==
  { Returned(<<"list", Catalog>>), Returned(<<"list", SubSeq(Catalog, 1, 1)>>),
    Threw(Err("McpError", <<"MCP error -32601: Method not found">>)) }

ResourceItem == Obj(<< <<<<"uri">>, Str(<<"page://current">>)>> >>)

ReadOutcomes ==
  { Returned(Obj(<< <<<<"contents">>, <<"arr", <<ResourceItem>> >> >> >>)),
    Returned(Obj(<<>>)),
    Threw(Err("McpError", <<"MCP error -32002: Resource not found">>)) }

(***************************************************************************)
(* Bounds of the model.                                                    *)
(***************************************************************************)
\* the longest batch of tool calls of one assistant message
MaxBatch == 2

\* the assistant messages with tool calls of a conversation in which the
\* model and the host are unconstrained (SpecBatch)
MaxRounds == 1

\* how far a long conversation (Spec) may depart from the nominal run, in
\* which every assistant message asks for one well-formed echo call, the
\* host answers it with {"text":"echo: x"}, and the final answer is "hi":
\* each further call of a batch, each malformed call, each other answer of
\* the host, each other end of the conversation counts 1
MaxVaried == 1

\* the completion endpoint is not asked more often than this in the model
MaxAsks == 21

\* connect() calls in progress at a time on one Client
MaxConnects == 2

\* transports in existence at a time
MaxTransports == 3

\* times the interval timer of one request_uber_evvm call may fire
MaxTicks == 4

Connects == 1..MaxConnects

(***************************************************************************)
(* State.                                                                  *)
(***************************************************************************)
VARIABLES
  connected,      \* MCPClient.connected
  cpc,            \* where each connect() in progress is: none, handshake, listing
  own,            \* the transport each connect() in its handshake has created (0: none)
  transport,      \* MCPClient.transport: the transport created last (0: not assigned yet)
  spawned,        \* the transports whose host process is running
  dpc,            \* where the disconnect() in progress is: none, client, transport
  pending,        \* the listTools/listResources/callTool/readResource awaiting the host
  lastOp,         \* the last completed call of a Client method, and its outcome
  live,           \* a connect() has returned normally and no disconnect() has returned since
  availableTools, \* OpenAIAgent.availableTools
  pc,             \* where processMessage is: idle, asking, calling, done, exhausted, thrown;
                  \* where the callTool of executeBrowserTask is: direct, directDone, directThrown
  messages,       \* the local messages of processMessage
  maxSteps,       \* the local maxSteps of processMessage
  assistantAt,    \* the position in messages of the local assistantMessage (0: none yet)
  idx,            \* the position in the batch of the tool call awaiting the host
  result,         \* what processMessage returned or threw
  asks,           \* completion requests submitted by this processMessage
  log,            \* one entry per tool-call request processed by this processMessage
  lastCall,       \* the last callTool that processMessage awaited: the host's answer, its outcome
  direct,         \* the callTool that executeBrowserTask made itself: name, arguments, answer
  spc,            \* where runExample is, and inside it the method of the agent it awaits
  cleanups,       \* the calls of agent.cleanup() that runExample has made
  fatal,          \* the error that the outer catch of runExample caught, and the call it left
  parked,         \* the locals of a second processMessage in progress on the same agent,
                  \* while it is not the one running
  who,            \* which of the two processMessage is running: 1 or 2
  agentInstance,  \* the module variable agentInstance of a hosting server: 0 for null,
                  \* else the number of the OpenAIAgent it holds
  built,          \* the OpenAIAgent constructed by getAgent() so far
  inits,          \* the calls of initialize() made by getAgent() so far
  apiKey,         \* process.env.OPENAI_API_KEY is set
  reqs,           \* the POST /request-uber requests: where each handler is, its
                  \* destination, the agent getAgent() gave it, the responses it sent
  tool,           \* the calls of the request_uber_evvm tool: where each handler is, its
                  \* progress token, its interval timer, the notifications it sent
  privateKey,     \* process.env.EVVM_PRIVATE_KEY is set
  scenario,       \* the runs explored: conversations "long" or "batch" (see MaxVaried,
                  \* MaxRounds); uses of the Client "serial" or "overlap" (see Overlap)
  varied          \* departures from the nominal run so far

clientVars == <<connected, cpc, own, transport, spawned, dpc, pending, lastOp, live>>
agentVars  == <<availableTools, pc, messages, maxSteps, assistantAt, idx, result, asks, log, lastCall,
                direct, scenario, varied>>
sessVars   == <<spc, cleanups, fatal>>
pairVars   == <<parked, who>>
hostVars   == <<agentInstance, built, inits, apiKey, reqs>>
toolVars   == <<tool, privateKey>>
vars       == <<connected, cpc, own, transport, spawned, dpc, pending, lastOp, live,
                availableTools, pc, messages, maxSteps, assistantAt, idx, result, asks, log, lastCall,
                direct, scenario, varied, spc, cleanups, fatal, parked, who,
                agentInstance, built, inits, apiKey, reqs, tool, privateKey>>

NoOp == [op |-> "none", live |-> FALSE, quiet |-> TRUE, sent |-> FALSE, resp |-> NoOutcome,
         outcome |-> NoOutcome]

NoPending == [op |-> "none", live |-> FALSE, quiet |-> TRUE]

NoCall == [id |-> 0, resp |-> NoOutcome, ret |-> NoOutcome]

\* the locals of a processMessage that has not been called
NoLocals == [pc |-> "idle", messages |-> <<>>, maxSteps |-> 0, assistantAt |-> 0, idx |-> 0,
             result |-> NoOutcome, asks |-> 0, log |-> <<>>, lastCall |-> NoCall]

\* a request that has not arrived
NoRequest == [at |-> "none", destination |-> <<"undefined">>, agent |-> 0, ready |-> FALSE,
              responses |-> <<>>]

\* a call of the request_uber_evvm tool that has not been made
NoInvocation == [at |-> "none", token |-> <<"undefined">>, timer |-> "none", fired |-> 0,
                 notes |-> <<>>, returned |-> <<"none">>]

NoFatal == [from |-> "none", e |-> Err("", <<>>)]

NoDirect == [name |-> <<"none">>, args |-> <<"none">>, sent |-> FALSE, resp |-> NoOutcome]

Undefined == <<"undefined">>

\* the state after `new OpenAIAgent(config)`
Init ==
  /\ connected = FALSE
  /\ cpc = [c \in Connects |-> "none"]
  /\ own = [c \in Connects |-> 0]
  /\ transport = 0
  /\ spawned = {}
  /\ dpc = "none"
  /\ pending = NoPending
  /\ lastOp = NoOp
  /\ live = FALSE
  /\ availableTools = <<>>
  /\ pc = "idle"
  /\ messages = <<>>
  /\ maxSteps = 0
  /\ assistantAt = 0
  /\ idx = 0
  /\ result = NoOutcome
  /\ asks = 0
  /\ log = <<>>
  /\ lastCall = NoCall
  /\ direct = NoDirect
  /\ spc = "off"
  /\ cleanups = 0
  /\ fatal = NoFatal
  /\ parked = NoLocals
  /\ who = 1
  /\ agentInstance = 0
  /\ built = 0
  /\ inits = 0
  /\ apiKey = TRUE
  /\ reqs = [r \in 1..2 |-> NoRequest]
  /\ tool = [i \in 1..2 |-> NoInvocation]
  /\ privateKey = TRUE
  /\ scenario \in {"serial", "overlap"}
  /\ varied = 0

(***************************************************************************)
(* MCPClient.connect                                                       *)
(***************************************************************************)
\* the record of a completed call of method op: whether a connect() had
\* succeeded when it was called (wasLive), whether no other connect() or
\* disconnect() was in progress (quiet: when it was called, for listTools,
\* listResources, callTool and readResource; when it returned, for
\* connect and disconnect), whether it sent a request
Completed(op, wasLive, quiet, sent, resp, outcome) ==
  [op |-> op, live |-> wasLive, quiet |-> quiet, sent |-> sent, resp |-> resp,
   outcome |-> outcome]

\* lines 42-85: neither connect() nor disconnect() is in progress
Quiet == (\A c \in Connects : cpc[c] = "none") /\ dpc = "none"

\* no connect() other than number c, and no disconnect(), is in progress
QuietBut(c) == (\A b \in Connects \ {c} : cpc[b] = "none") /\ dpc = "none"

\* no connect() is in progress
NoConnect == \A c \in Connects : cpc[c] = "none"

\* the uses of the Client explored: in "serial" one connect() at a time,
\* with calls of the four other methods; in "overlap" connect() calls that
\* overlap each other and disconnect(), without calls of the other methods
Overlap == scenario = "overlap"

\* a connect() that never takes the Client for connected
NeverAlreadyConnected(isConnected) == FALSE

\* line 43: the guard connect() starts with
AlreadyConnected(isConnected) == isConnected

\* lines 50-53: the transports `new StdioClientTransport` can still give
FreeTransports ==
  (1..MaxTransports) \ (spawned \cup { own[c] : c \in Connects })

\* lines 42-56: connect() number c is called. An already connected Client
\* returns at once; otherwise a transport is created and assigned to
\* this.transport, and client.connect(transport) awaited
ConnectStart(c) ==
  /\ cpc[c] = "none"
  /\ \A b \in 1..(c - 1) : cpc[b] # "none"
  /\ Overlap \/ c = 1
  /\ IF AlreadyConnected(connected)
       THEN /\ lastOp' = Completed("connect", live, Quiet, FALSE, NoOutcome, Returned(Undefined))
            /\ live' = TRUE
            /\ UNCHANGED <<cpc, own, transport>>
       ELSE /\ FreeTransports # {}
            /\ LET t == CHOOSE t \in FreeTransports : \A u \in FreeTransports : t <= u
               IN  /\ transport' = t
                   /\ own' = [own EXCEPT ![c] = t]
            /\ cpc' = [cpc EXCEPT ![c] = "handshake"]
            /\ UNCHANGED <<lastOp, live>>
  /\ UNCHANGED <<connected, spawned, dpc, pending>>
  /\ UNCHANGED agentVars

\* lines 56-66: the handshake of connect() number c ends. On success the
\* host process of its transport is running, the flag is set and the
\* catalog requested through listTools(); on failure the transport is
\* closed and the error thrown
ConnectHandshake(c) ==
  /\ cpc[c] = "handshake"
  /\ \E ok \in BOOLEAN :
       IF ok
         THEN /\ connected' = TRUE
              /\ spawned' = spawned \cup {own[c]}
              /\ cpc' = [cpc EXCEPT ![c] = "listing"]
              /\ UNCHANGED lastOp
         ELSE /\ cpc' = [cpc EXCEPT ![c] = "none"]
              /\ lastOp' = Completed("connect", live, QuietBut(c), FALSE, NoOutcome,
                                     Threw(Err("Error", <<"spawn npx ENOENT">>)))
              /\ UNCHANGED <<connected, spawned>>
  /\ own' = [own EXCEPT ![c] = 0]
  /\ UNCHANGED <<transport, dpc, pending, live>>
  /\ UNCHANGED agentVars

\* lines 61-66: the catalog request made inside connect() number c ends
ConnectListed(c) ==
  /\ cpc[c] = "listing"
  /\ \E o \in ListOutcomes :
       /\ lastOp' = Completed("connect", live, QuietBut(c), TRUE, o,
                              IF o.threw THEN Threw(o.e) ELSE Returned(Undefined))
       /\ live' = (live \/ ~o.threw)
  /\ cpc' = [cpc EXCEPT ![c] = "none"]
  /\ UNCHANGED <<connected, own, transport, spawned, dpc, pending>>
  /\ UNCHANGED agentVars

(***************************************************************************)
(* MCPClient.disconnect                                                    *)
(***************************************************************************)
\* lines 72-78: nothing to do on a Client that is not connected; otherwise
\* client.close() is awaited
DisconnectStart ==
  /\ dpc = "none"
  /\ IF ~connected
       THEN /\ lastOp' = Completed("disconnect", live, Quiet, FALSE, NoOutcome, Returned(Undefined))
            /\ live' = FALSE
            /\ UNCHANGED dpc
       ELSE /\ dpc' = "client"
            /\ UNCHANGED <<lastOp, live>>
  /\ UNCHANGED <<connected, cpc, own, transport, spawned, pending>>
  /\ UNCHANGED agentVars

\* lines 78-84: client.close() ends: it has closed the transport the client
\* was connected to last, or it has failed, which is logged and swallowed
DisconnectClientClosed ==
  /\ dpc = "client"
  /\ \E ok \in BOOLEAN :
       IF ok
         THEN /\ dpc' = "transport"
              /\ spawned' = spawned \ {transport}
              /\ UNCHANGED <<lastOp, live>>
         ELSE /\ dpc' = "none"
              /\ lastOp' = Completed("disconnect", live, NoConnect, FALSE, NoOutcome,
                                     Returned(Undefined))
              /\ live' = FALSE
              /\ UNCHANGED spawned
  /\ UNCHANGED <<connected, cpc, own, transport, pending>>
  /\ UNCHANGED agentVars

\* lines 79-84: this.transport.close() ends; only on success is the flag
\* cleared
DisconnectTransportClosed ==
  /\ dpc = "transport"
  /\ \E ok \in BOOLEAN :
       /\ connected' = (IF ok THEN FALSE ELSE connected)
       /\ spawned' = (IF ok THEN spawned \ {transport} ELSE spawned)
  /\ dpc' = "none"
  /\ lastOp' = Completed("disconnect", live, NoConnect, FALSE, NoOutcome, Returned(Undefined))
  /\ live' = FALSE
  /\ UNCHANGED <<cpc, own, transport, pending>>
  /\ UNCHANGED agentVars

(***************************************************************************)
(* MCPClient.listTools, listResources, callTool, readResource, called by   *)
(* the owner of the Client.                                                *)
(***************************************************************************)
ClientOps == {"listTools", "listResources", "callTool", "readResource"}

\* a guard that lets every call through
GuardAlwaysPasses(isConnected) == TRUE

\* the guard each of the four methods starts with (lines 91, 108, 125, 162)
GuardPasses(isConnected) == isConnected

\* MCPClient.readResource, lines 171-175
ReadResourceDecode(response) ==
  LET list == Get(response, <<"contents">>)
  IN  IF list[1] = "arr" /\ Len(list[2]) > 0 THEN list[2][1] ELSE response

\* what the host may answer to the request of method op
AnswersTo(op) ==
  CASE op = "callTool"     -> HostOutcomes
    [] op = "readResource" -> ReadOutcomes
    [] OTHER               -> ListOutcomes

\* the outcome of method op once the host has answered
MethodOutcome(op, host) ==
  CASE op = "callTool"     -> CallToolOutcome(host)
    [] op = "readResource" -> IF host.threw THEN Threw(host.e)
                              ELSE Returned(ReadResourceDecode(host.v))
    [] OTHER               -> host

\* the method is called: it throws when the guard fails, and otherwise
\* sends its request and awaits the answer
OpStart(op) ==
  /\ ~Overlap
  /\ pending.op = "none"
  /\ IF GuardPasses(connected)
       THEN /\ pending' = [op |-> op, live |-> live, quiet |-> Quiet]
            /\ UNCHANGED lastOp
       ELSE /\ lastOp' = Completed(op, live, Quiet, FALSE, NoOutcome, Threw(NotConnected))
            /\ UNCHANGED pending
  /\ UNCHANGED <<connected, cpc, own, transport, spawned, dpc, live>>
  /\ UNCHANGED agentVars

\* a method that takes the Client for disconnected once the host has failed
OpReturnDropsOnError ==
  /\ pending.op # "none"
  /\ \E host \in AnswersTo(pending.op) :
       /\ lastOp' = Completed(pending.op, pending.live, pending.quiet, TRUE, host,
                              MethodOutcome(pending.op, host))
       /\ connected' = (connected /\ ~host.threw)
  /\ pending' = NoPending
  /\ UNCHANGED <<cpc, own, transport, spawned, dpc, live>>
  /\ UNCHANGED agentVars

\* the host answers the pending request
OpReturn ==
  /\ pending.op # "none"
  /\ \E host \in AnswersTo(pending.op) :
       lastOp' = Completed(pending.op, pending.live, pending.quiet, TRUE, host,
                           MethodOutcome(pending.op, host))
  /\ pending' = NoPending
  /\ UNCHANGED <<connected, cpc, own, transport, spawned, dpc, live>>
  /\ UNCHANGED agentVars

ClientNext ==
  \/ \E c \in Connects : ConnectStart(c) /\ UNCHANGED <<sessVars, pairVars, hostVars, toolVars>>
  \/ \E c \in Connects : ConnectHandshake(c) /\ UNCHANGED <<sessVars, pairVars, hostVars, toolVars>>
  \/ \E c \in Connects : ConnectListed(c) /\ UNCHANGED <<sessVars, pairVars, hostVars, toolVars>>
  \/ DisconnectStart /\ UNCHANGED <<sessVars, pairVars, hostVars, toolVars>>
  \/ DisconnectClientClosed /\ UNCHANGED <<sessVars, pairVars, hostVars, toolVars>>
  \/ DisconnectTransportClosed /\ UNCHANGED <<sessVars, pairVars, hostVars, toolVars>>
  \/ \E op \in ClientOps : OpStart(op) /\ UNCHANGED <<sessVars, pairVars, hostVars, toolVars>>
  \/ OpReturn /\ UNCHANGED <<sessVars, pairVars, hostVars, toolVars>>

\* the Client alone, driven by its owner
SpecClient == Init /\ [][ClientNext]_vars
(***************************************************************************)
(* OpenAIAgent.processMessage                                              *)
(***************************************************************************)
Tasks == { <<"say", SPACE, "hello">>, <<"book", SPACE, "a", SPACE, "ride">> }

\* this.availableTools.map(t => t.name).join(', ')
RECURSIVE JoinNames(_, _)
JoinNames(names, j) ==
  IF j > Len(names) THEN <<>>
  ELSE (IF j > 1 THEN <<",", SPACE>> ELSE <<>>) \o <<names[j]>> \o JoinNames(names, j + 1)

\* lines 62-93: the system prompt
SystemPrompt(tools) ==
  <<"You are an AI assistant with access to browser automation tools via MCP. Available tools: ">>
    \o JoinNames(tools, 1)
    \o <<" CRITICAL INSTRUCTION FOR FINAL OUTPUT: a valid JSON object">>

Sentinel == <<"Maximum conversation steps reached. The task may be incomplete.">>

Fallback == <<"Task completed">>

SyntaxError == Err("SyntaxError", <<"Unexpected end of JSON input">>)

Message(role, content, calls, id) ==
  [role |-> role, content |-> content, tool_calls |-> calls, tool_call_id |-> id]

\* a conversation that starts without the system message
InitialMessagesNoSystem(tools, userMessage) ==
  << Message("user", Str(userMessage), <<>>, 0) >>

\* lines 59-99: the conversation a processMessage starts from
InitialMessages(tools, userMessage) ==
  << Message("system", Str(SystemPrompt(tools)), <<>>, 0),
     Message("user", Str(userMessage), <<>>, 0) >>

\* lines 37-49: convertToOpenAIFunctions (of a tool the model keeps its name)
ConvertToOpenAIFunctions(tools) ==
  [j \in 1..Len(tools) |-> [type |-> "function", name |-> tools[j]]]

\* lines 105-110: the request submitted to the completion endpoint
CompletionRequest(msgs, tools) ==
  [messages |-> msgs, tools |-> ConvertToOpenAIFunctions(tools), tool_choice |-> "auto"]

\* the requests a model may emit: the nominal echo call with {"text":"x"},
\* a call whose arguments are cut short, a call of a tool not in the catalog
NominalCall ==
  [name |-> "echo", arguments |-> JSON_stringify(Obj(<< <<<<"text">>, Str(<<"x">>)>> >>))]

MalformedCall == [name |-> "echo", arguments |-> <<"{">> \o Lit("text") \o <<":">>]

\* a call of a tool that the catalog does not list
UnlistedCall == [name |-> "navigate", arguments |-> NominalCall.arguments]

CallKinds == {NominalCall, MalformedCall, UnlistedCall}

\* what the host answers to the calls of a conversation
DispatchAnswers ==
  { NominalOutcome,
    Returned(Response(<<TextItem(<<"Navigated", SPACE, "to", SPACE, "page">>)>>)),
    Threw(Err("McpError", <<"MCP error -32602: tool failed">>)) }

\* the content of an assistant message that ends the conversation:
\* hi, null, "", {"status":"success"}
NominalFinal == Str(<<"hi">>)

FinalContents ==
  { NominalFinal, <<"null">>, Str(<<>>),
    Str(JSON_stringify(Obj(<< <<<<"status">>, Str(<<"success">>)>> >>))) }

\* the batches of k requests, with the ids the endpoint gives them: ids are
\* unique in a conversation, the first of this batch being `first`
RECURSIVE BatchesOf(_, _)
BatchesOf(k, first) ==
  IF k = 0 THEN { <<>> }
  ELSE { Append(b, [id |-> first + k - 1, name |-> c.name, arguments |-> c.arguments]) :
           b \in BatchesOf(k - 1, first), c \in CallKinds }

RECURSIVE Departures(_, _)
Departures(batch, j) ==
  IF j > Len(batch) THEN 0
  ELSE (IF j > 1 THEN 1 ELSE 0)
       + (IF batch[j].arguments # NominalCall.arguments \/ batch[j].name # NominalCall.name
            THEN 1 ELSE 0)
       + Departures(batch, j + 1)

\* the batches explored: where the model and the host are unconstrained, a
\* call of an unlisted tool comes alone
Explored(batch) ==
  scenario = "batch" => (Len(batch) = 1 \/ \A j \in 1..Len(batch) : batch[j].name # UnlistedCall.name)

\* whether the conversation explored may depart by `cost` more
Admits(cost) == scenario = "batch" \/ varied + cost <= MaxVaried

Spend(cost) == IF scenario = "batch" THEN varied ELSE varied + cost

\* line 136: the text a failed call is answered with
ErrorResult(name, e) == Str(<<"Error executing ", name, ":", SPACE>> \o ErrorText(e))

\* a content that is always the JSON encoding of the result
ToolContentAlwaysStringify(res) == Str(JSON_stringify(res))

\* line 142: the content of the tool-role message
ToolContent(res) == IF IsString(res) THEN res ELSE Str(JSON_stringify(res))

\* a push that replaces the last message
PushOverLast(msgs, m) == [msgs EXCEPT ![Len(msgs)] = m]

\* lines 113, 140: messages.push(m)
Push(msgs, m) == Append(msgs, m)

\* a tool-role message that leaves out the id of the call it answers
ToolMessageNoId(toolCall, res) == Message("tool", ToolContent(res), <<>>, 0)

\* lines 140-144: the tool-role message of a call
ToolMessage(toolCall, res) == Message("tool", ToolContent(res), <<>>, toolCall.id)

LogEntry(id, called, sent, done, failed) ==
  [id |-> id, called |-> called, sent |-> sent, done |-> done, failed |-> failed]

Progress(msgs, lg, i, waiting, threw) ==
  [messages |-> msgs, log |-> lg, idx |-> i, waiting |-> waiting, threw |-> threw]

\* a dispatch loop without the catch: the error of a call leaves it
Rethrown(e) == Threw(e)

\* lines 134-137: the catch around one call turns its error into the result
Caught(e) == Returned(e)

\* a dispatch loop that answers only the calls that succeed
AnsweredOnlySuccess(msgs, toolCall, out) ==
  IF out.threw
    THEN [messages |-> msgs, threw |-> NoOutcome]
    ELSE [messages |-> Push(msgs, ToolMessage(toolCall, out.v)), threw |-> NoOutcome]

\* lines 122-144 for a call that has ended with `out`, a returned value or
\* a thrown error: the result, and the message pushed
Answered(msgs, toolCall, out) ==
  LET c == IF out.threw THEN Caught(out.e) ELSE out
  IN  IF c.threw
        THEN [messages |-> msgs, threw |-> c]
        ELSE [messages |->
                Push(msgs, ToolMessage(toolCall,
                                       IF out.threw THEN ErrorResult(toolCall.name, c.v)
                                                    ELSE c.v)),
              threw |-> NoOutcome]

\* a for loop that steps over every second request
SkipRequest(i) == i + 2

\* the request after request i of the batch (the for loop of line 119)
NextRequest(i) == i + 1

\* lines 119-145: the for loop over the batch from request i on, up to the
\* request that awaits the host, or to the end of the batch
RECURSIVE Dispatch(_, _, _, _, _)
Dispatch(msgs, lg, batch, i, isConnected) ==
  IF i > Len(batch) THEN Progress(msgs, lg, i, FALSE, NoOutcome)
  ELSE LET toolCall == batch[i]
           args     == JSON_parse(toolCall.arguments)
           called   == args.ok
           local    == IF ~args.ok THEN Threw(SyntaxError) ELSE Threw(NotConnected)
           a        == Answered(msgs, toolCall, local)
           entry    == LogEntry(toolCall.id, called, FALSE, TRUE, TRUE)
       IN  IF args.ok /\ GuardPasses(isConnected)
             THEN Progress(msgs, Append(lg, LogEntry(toolCall.id, TRUE, TRUE, FALSE, FALSE)),
                           i, TRUE, NoOutcome)
           ELSE IF a.threw.threw
             THEN Progress(a.messages, Append(lg, entry), i, FALSE, a.threw)
           ELSE Dispatch(a.messages, Append(lg, entry), batch, NextRequest(i), isConnected)

\* line 101
StepBudget == 20

\* a loop that never spends its budget
NoDecrement(steps) == steps

\* line 148
Decrement(steps) == steps - 1

\* a loop that runs once more, at budget 0
LoopGuardInclusive(steps) == steps >= 0

\* line 103
LoopGuard(steps) == steps > 0

\* a return of the content as it is, without the fallback
FinalResultRaw(content) == content

\* line 151
FinalResult(content) ==
  IF content[1] = "str" /\ content[2] # <<>> THEN content ELSE Str(Fallback)

\* where the loop goes once the for loop has progressed to d: it awaits the
\* host, or the batch is over and the budget decremented (line 148), and
\* then the next completion is requested (line 105) or the loop left
\* (lines 103, 155)
Resume(d) ==
  /\ messages' = d.messages
  /\ log' = d.log
  /\ IF d.threw.threw
       THEN /\ pc' = "thrown"
            /\ result' = d.threw
            /\ UNCHANGED <<idx, maxSteps, asks>>
     ELSE IF d.waiting
       THEN /\ pc' = "calling"
            /\ idx' = d.idx
            /\ UNCHANGED <<maxSteps, asks, result>>
     ELSE /\ maxSteps' = Decrement(maxSteps)
          /\ idx' = 0
          /\ IF LoopGuard(maxSteps')
               THEN /\ asks < MaxAsks
                    /\ pc' = "asking"
                    /\ asks' = asks + 1
                    /\ UNCHANGED result
               ELSE /\ pc' = "exhausted"
                    /\ result' = Returned(Str(Sentinel))
                    /\ UNCHANGED asks

\* no call of processMessage or executeBrowserTask is in progress
Settled == {"idle", "done", "exhausted", "thrown", "directDone", "directThrown"}

\* lines 54-110: processMessage(userMessage) up to its first completion
\* request
Start(userMessage) ==
  /\ pc \in Settled
  /\ messages' = InitialMessages(availableTools, userMessage)
  /\ maxSteps' = StepBudget
  /\ pc' = "asking"
  /\ asks' = 1
  /\ assistantAt' = 0
  /\ idx' = 0
  /\ log' = <<>>
  /\ lastCall' = NoCall
  /\ direct' = NoDirect
  /\ result' = NoOutcome
  /\ varied' = 0
  /\ UNCHANGED <<availableTools, scenario>>
  /\ UNCHANGED clientVars

\* the error of a completion request that fails (lines 105-110)
APIError == Err("APIError", <<"500 Internal Server Error">>)

\* an outer catch that logs the error and returns its text
OuterCatchSwallows(e) == Returned(Str(ErrorText(e)))

\* lines 157-160: the outer catch logs the error and throws it again
OuterCatch(e) == Threw(e)

\* lines 105-110, 157-160: the completion request fails; the error leaves
\* processMessage
AskFails ==
  /\ pc = "asking"
  /\ Admits(1)
  /\ varied' = Spend(1)
  /\ result' = OuterCatch(APIError)
  /\ pc' = (IF result'.threw THEN "thrown" ELSE "done")
  /\ UNCHANGED <<availableTools, messages, maxSteps, assistantAt, idx, asks, log, lastCall,
                  direct, scenario>>
  /\ UNCHANGED clientVars

\* lines 112-113, 149-152: the model answers without tool calls
AskReturnsFinal ==
  /\ pc = "asking"
  /\ \E content \in FinalContents :
       LET cost == IF content = NominalFinal THEN 0 ELSE 1
       IN  /\ Admits(cost)
           /\ varied' = Spend(cost)
           /\ messages' = Push(messages, Message("assistant", content, <<>>, 0))
           /\ result' = Returned(FinalResult(content))
  /\ assistantAt' = Len(messages) + 1
  /\ pc' = "done"
  /\ UNCHANGED <<availableTools, maxSteps, idx, asks, log, lastCall, direct, scenario>>
  /\ UNCHANGED clientVars

\* lines 112-148: the model answers with a batch of tool calls
AskReturnsCalls ==
  /\ pc = "asking"
  /\ scenario = "batch" => asks <= MaxRounds
  /\ \E k \in 1..MaxBatch : \E batch \in BatchesOf(k, Len(log) + 1) :
       /\ Explored(batch)
       /\ Admits(Departures(batch, 1))
       /\ varied' = Spend(Departures(batch, 1))
       /\ Resume(Dispatch(Push(messages, Message("assistant", <<"null">>, batch, 0)),
                          log, batch, 1, connected))
  /\ assistantAt' = Len(messages) + 1
  /\ UNCHANGED <<availableTools, lastCall, direct, scenario>>
  /\ UNCHANGED clientVars

\* lines 128-148: the host answers the call awaited
CallReturns ==
  /\ pc = "calling"
  /\ \E host \in DispatchAnswers :
       LET batch    == messages[assistantAt].tool_calls
           toolCall == batch[idx]
           out      == CallToolOutcome(host)
           a        == Answered(messages, toolCall, out)
           lg       == [log EXCEPT ![Len(log)] =
                          LogEntry(toolCall.id, TRUE, TRUE, TRUE, out.threw)]
           cost     == IF host = NominalOutcome THEN 0 ELSE 1
       IN  /\ Admits(cost)
           /\ varied' = Spend(cost)
           /\ lastCall' = [id |-> toolCall.id, resp |-> host, ret |-> out]
           /\ IF a.threw.threw
                THEN Resume(Progress(a.messages, lg, idx, FALSE, a.threw))
                ELSE Resume(Dispatch(a.messages, lg, batch, NextRequest(idx), connected))
  /\ UNCHANGED <<availableTools, assistantAt, direct, scenario>>
  /\ UNCHANGED clientVars

(***************************************************************************)
(* OpenAIAgent.executeBrowserTask                                          *)
(***************************************************************************)
\* JavaScript's conversion of a value to a boolean, as `&&` applies it
\* (line 168): undefined, null and the empty string are falsy; an object
\* is truthy, the empty one included
Truthy(v) == v # Undefined /\ v # <<"null">> /\ v # Str(<<>>)

\* the optional toolName and args that a caller of executeBrowserTask passes
ToolNamesGiven == {Undefined, Str(<<>>), Str(<<"echo">>)}
ArgsGiven      == {Undefined, Obj(<<>>), Obj(<< <<<<"text">>, Str(<<"x">>)>> >>)}

\* a catch that logs the error and returns its text
ExecuteCatchSwallows(e) == Returned(Str(ErrorText(e)))

\* lines 176-179: the catch of executeBrowserTask logs the error and throws
\* it again
ExecuteCatch(e) == Threw(e)

\* lines 167-179: what leaves executeBrowserTask when the call it awaited
\* returned or threw o
ExecuteOutcome(o) == IF o.threw THEN ExecuteCatch(o.e) ELSE o

\* lines 168-171, and 124-134 of mcp-client.ts: with a tool name and
\* arguments, callTool(toolName, args) is called; it throws when the
\* Client is not connected and sends the request otherwise.  The locals
\* of an earlier processMessage are gone.
ExecuteDirect(toolName, args) ==
  /\ pc \in Settled
  /\ Truthy(toolName) /\ Truthy(args)
  /\ direct' = [name |-> toolName, args |-> args, sent |-> GuardPasses(connected),
                resp |-> NoOutcome]
  /\ IF GuardPasses(connected)
       THEN /\ pc' = "direct"
            /\ result' = NoOutcome
       ELSE /\ result' = ExecuteOutcome(Threw(NotConnected))
            /\ pc' = (IF result'.threw THEN "directThrown" ELSE "directDone")
  /\ messages' = <<>>
  /\ maxSteps' = 0
  /\ asks' = 0
  /\ assistantAt' = 0
  /\ idx' = 0
  /\ log' = <<>>
  /\ lastCall' = NoCall
  /\ varied' = 0
  /\ UNCHANGED <<availableTools, scenario>>
  /\ UNCHANGED clientVars

\* line 174: without a tool name or without arguments, the task
\* description goes to processMessage
ExecuteDelegates(taskDescription, toolName, args) ==
  /\ ~(Truthy(toolName) /\ Truthy(args))
  /\ Start(taskDescription)

\* lines 166-180
ExecuteBrowserTask(taskDescription, toolName, args) ==
  \/ ExecuteDirect(toolName, args)
  \/ ExecuteDelegates(taskDescription, toolName, args)

\* lines 170, 176-179, and 135-155 of mcp-client.ts: the host answers the
\* call that executeBrowserTask awaited
DirectReturns ==
  /\ pc = "direct"
  /\ \E host \in DispatchAnswers :
       /\ direct' = [direct EXCEPT !.resp = host]
       /\ result' = ExecuteOutcome(CallToolOutcome(host))
  /\ pc' = (IF result'.threw THEN "directThrown" ELSE "directDone")
  /\ UNCHANGED <<availableTools, messages, maxSteps, assistantAt, idx, asks, log, lastCall,
                  scenario, varied>>
  /\ UNCHANGED clientVars

AgentNext ==
  \/ \E t \in Tasks : Start(t) /\ UNCHANGED <<sessVars, pairVars, hostVars, toolVars>>
  \/ AskFails /\ UNCHANGED <<sessVars, pairVars, hostVars, toolVars>>
  \/ AskReturnsFinal /\ UNCHANGED <<sessVars, pairVars, hostVars, toolVars>>
  \/ AskReturnsCalls /\ UNCHANGED <<sessVars, pairVars, hostVars, toolVars>>
  \/ CallReturns /\ UNCHANGED <<sessVars, pairVars, hostVars, toolVars>>
  \/ \E t \in Tasks, n \in ToolNamesGiven, a \in ArgsGiven :
       ExecuteBrowserTask(t, n, a) /\ UNCHANGED <<sessVars, pairVars, hostVars, toolVars>>
  \/ DirectReturns /\ UNCHANGED <<sessVars, pairVars, hostVars, toolVars>>

\* an agent on which initialize() has completed, or has not been called,
\* and the conversations explored
InitSession ==
  /\ connected \in BOOLEAN
  /\ live = connected
  /\ availableTools = (IF connected THEN Catalog ELSE <<>>)
  /\ cpc = [c \in Connects |-> "none"]
  /\ own = [c \in Connects |-> 0]
  /\ transport = (IF connected THEN 1 ELSE 0)
  /\ spawned = (IF connected THEN {1} ELSE {})
  /\ dpc = "none"
  /\ pending = NoPending
  /\ lastOp = NoOp
  /\ pc = "idle"
  /\ messages = <<>>
  /\ maxSteps = 0
  /\ assistantAt = 0
  /\ idx = 0
  /\ result = NoOutcome
  /\ asks = 0
  /\ log = <<>>
  /\ lastCall = NoCall
  /\ direct = NoDirect
  /\ spc = "off"
  /\ cleanups = 0
  /\ fatal = NoFatal
  /\ parked = NoLocals
  /\ who = 1
  /\ agentInstance = 0
  /\ built = 0
  /\ inits = 0
  /\ apiKey = TRUE
  /\ reqs = [r \in 1..2 |-> NoRequest]
  /\ tool = [i \in 1..2 |-> NoInvocation]
  /\ privateKey = TRUE
  /\ scenario \in {"long", "batch"}
  /\ varied = 0

Next == AgentNext

\* one processMessage after the other on one agent
Spec == InitSession /\ [][Next]_vars

\* what tells two positions of the loop apart
loopVars == <<pc, idx, maxSteps>>

\* lines 105-110, 128-131: an await of processMessage is left; the
\* completion request or the call to the host it awaits has returned or
\* failed, and the loop is at its next position
AwaitEnds ==
  /\ pc \in {"asking", "calling"}
  /\ pc' \in {"asking", "calling", "done", "exhausted", "thrown"}
  /\ idx' \in 0..MaxBatch
  /\ maxSteps' \in 0..StepBudget

\* the same, where every completion request and every tool call that is
\* awaited ends
LiveSpec == InitSession /\ [][Next]_vars /\ WF_loopVars(AwaitEnds)

(***************************************************************************)
(* runExample: the interactive session (example.ts), with the methods of   *)
(* the agent it awaits: initialize, listCapabilities, processMessage,      *)
(* cleanup.                                                                *)
(***************************************************************************)
\* String.prototype.toLowerCase on the words a user types
ToLowerCase(t) ==
  [j \in 1..Len(t) |-> IF t[j] \in {"EXIT", "Exit"} THEN "exit" ELSE t[j]]

\* String.prototype.trim: the white space at both ends is removed
RECURSIVE Trim(_)
Trim(t) ==
  IF t = <<>> THEN t
  ELSE IF Head(t) = SPACE THEN Trim(Tail(t))
  ELSE IF t[Len(t)] = SPACE THEN Trim(SubSeq(t, 1, Len(t) - 1))
  ELSE t

\* what the user types at the prompt
Inputs == { <<"exit">>, <<"EXIT">>, <<SPACE, "exit">>, <<>>, <<SPACE>> } \cup Tasks

\* the error e left the call `from` and reached the outer catch
Fatal(from, e) == [from |-> from, e |-> e]

\* the state after `new OpenAIAgent({...})` in runExample (lines 30-33)
InitRun ==
  /\ connected = FALSE
  /\ cpc = [c \in Connects |-> "none"]
  /\ own = [c \in Connects |-> 0]
  /\ transport = 0
  /\ spawned = {}
  /\ dpc = "none"
  /\ pending = NoPending
  /\ lastOp = NoOp
  /\ live = FALSE
  /\ availableTools = <<>>
  /\ pc = "idle"
  /\ messages = <<>>
  /\ maxSteps = 0
  /\ assistantAt = 0
  /\ idx = 0
  /\ result = NoOutcome
  /\ asks = 0
  /\ log = <<>>
  /\ lastCall = NoCall
  /\ direct = NoDirect
  /\ spc = "constructed"
  /\ cleanups = 0
  /\ fatal = NoFatal
  /\ parked = NoLocals
  /\ who = 1
  /\ agentInstance = 0
  /\ built = 0
  /\ inits = 0
  /\ apiKey = TRUE
  /\ reqs = [r \in 1..2 |-> NoRequest]
  /\ tool = [i \in 1..2 |-> NoInvocation]
  /\ privateKey = TRUE
  /\ scenario = "session"
  /\ varied = 0

\* lines 35, 80-82: inside the outer try, the call `from` of the agent is
\* over when `over` holds, with the outcome o: an error goes to the outer
\* catch, otherwise runExample goes on at `next`; a call not yet over is
\* awaited at `waiting`
Await(from, over, o, next, waiting) ==
  IF over
    THEN IF o.threw
           THEN spc' = "caught" /\ fatal' = Fatal(from, o.e)
           ELSE spc' = next /\ UNCHANGED fatal
    ELSE spc' = waiting /\ UNCHANGED fatal

\* line 40 of example.ts, line 29 of initialize: connect() is called
InitializeConnects ==
  /\ spc = "constructed"
  /\ ConnectStart(1)
  /\ Await("initialize", cpc'[1] = "none", lastOp'.outcome, "init.connected", "init.connect")
  /\ UNCHANGED cleanups

\* line 29: the connect() awaited goes on
InitializeConnecting ==
  /\ spc = "init.connect"
  /\ ConnectHandshake(1) \/ ConnectListed(1)
  /\ Await("initialize", cpc'[1] = "none", lastOp'.outcome, "init.connected", "init.connect")
  /\ UNCHANGED cleanups

\* line 30: listTools() is called
InitializeLists ==
  /\ spc = "init.connected"
  /\ OpStart("listTools")
  /\ Await("initialize", pending'.op = "none", lastOp'.outcome, "init.listed", "init.list")
  /\ UNCHANGED cleanups

\* line 30: the listTools() awaited returns or throws
InitializeListed ==
  /\ spc = "init.list"
  /\ OpReturn
  /\ Await("initialize", TRUE, lastOp'.outcome, "init.listed", "init.list")
  /\ UNCHANGED cleanups

\* an initialize() that does not keep the catalog
CachedNothing(old, list) == old

\* line 30: the value that listTools() returned is assigned to
\* this.availableTools
Cached(old, list) == list[2]

\* lines 30-32: the catalog is cached and initialize() returns
InitializeCaches ==
  /\ spc = "init.listed"
  /\ availableTools' = Cached(availableTools, lastOp.outcome.v)
  /\ spc' = "initialized"
  /\ UNCHANGED <<cleanups, fatal>>
  /\ UNCHANGED <<pc, messages, maxSteps, assistantAt, idx, result, asks, log, lastCall, direct,
                  scenario, varied>>
  /\ UNCHANGED clientVars

\* line 43 of example.ts, line 186 of listCapabilities: listTools() is called
CapabilitiesListsTools ==
  /\ spc = "initialized"
  /\ OpStart("listTools")
  /\ Await("listCapabilities", pending'.op = "none", lastOp'.outcome, "cap.tools.listed",
           "cap.tools")
  /\ UNCHANGED cleanups

\* line 187: once listTools() has returned, listResources() is called
CapabilitiesListsResources ==
  /\ spc = "cap.tools.listed"
  /\ OpStart("listResources")
  /\ Await("listCapabilities", pending'.op = "none", lastOp'.outcome, "prompt", "cap.resources")
  /\ UNCHANGED cleanups

\* lines 186-189: the list awaited returns or throws
CapabilitiesListed ==
  /\ spc \in {"cap.tools", "cap.resources"}
  /\ OpReturn
  /\ Await("listCapabilities", TRUE, lastOp'.outcome,
           IF spc = "cap.tools" THEN "cap.tools.listed" ELSE "prompt", spc)
  /\ UNCHANGED cleanups

\* line 79 (at "prompt") and line 82 (at "caught"): agent.cleanup() is
\* called, which calls disconnect() (line 196)
CleanupCalled ==
  /\ DisconnectStart
  /\ cleanups' = cleanups + 1
  /\ IF spc = "caught"
       THEN /\ spc' = (IF dpc' # "none" THEN "cleanup.fatal"
                       ELSE IF lastOp'.outcome.threw THEN "rejected" ELSE "exit1")
            /\ UNCHANGED fatal
       ELSE Await("cleanup", dpc' = "none", lastOp'.outcome, "exit0", "cleanup")

\* lines 59-67: the user answers the prompt: "exit" in any case leaves the
\* loop for the cleanup of line 79, a blank line is skipped, anything else
\* goes to processMessage (line 71)
Prompt(userInput) ==
  /\ spc = "prompt"
  /\ IF ToLowerCase(userInput) = <<"exit">>
       THEN CleanupCalled
       ELSE IF Trim(userInput) = <<>>
              THEN UNCHANGED vars
              ELSE /\ Start(userInput)
                   /\ spc' = "message"
                   /\ UNCHANGED <<cleanups, fatal>>

\* line 80-82: the outer catch logs the error and calls agent.cleanup()
OuterCatchCleans ==
  /\ spc = "caught"
  /\ CleanupCalled

\* lines 79, 82, and 78-84 of mcp-client.ts: the disconnect() awaited by
\* cleanup() goes on; then process.exit(0) (line 87) or process.exit(1)
\* (line 83)
CleanupGoesOn ==
  /\ spc \in {"cleanup", "cleanup.fatal"}
  /\ DisconnectClientClosed \/ DisconnectTransportClosed
  /\ IF spc = "cleanup.fatal"
       THEN /\ spc' = (IF dpc' # "none" THEN "cleanup.fatal"
                       ELSE IF lastOp'.outcome.threw THEN "rejected" ELSE "exit1")
            /\ UNCHANGED fatal
       ELSE Await("cleanup", dpc' = "none", lastOp'.outcome, "exit0", "cleanup")
  /\ UNCHANGED cleanups

\* an inner catch that throws the error again
InnerCatchRethrows(o) == o

\* lines 73-75: the inner catch logs the error of processMessage
InnerCatch(o) == Returned(Undefined)

\* lines 69-75: the processMessage awaited goes on; when it has returned
\* or thrown, the loop is back at the prompt
MessageGoesOn ==
  /\ spc = "message"
  /\ \/ AskFails
     \/ AskReturnsFinal
     \/ AskReturnsCalls
     \/ CallReturns
  /\ asks' <= MaxRounds + 1
  /\ Await("processMessage", pc' \in Settled,
           IF result'.threw THEN InnerCatch(result') ELSE result', "prompt", "message")
  /\ UNCHANGED cleanups

SessionNext ==
  \/ InitializeConnects /\ UNCHANGED <<pairVars, hostVars, toolVars>>
  \/ InitializeConnecting /\ UNCHANGED <<pairVars, hostVars, toolVars>>
  \/ InitializeLists /\ UNCHANGED <<pairVars, hostVars, toolVars>>
  \/ InitializeListed /\ UNCHANGED <<pairVars, hostVars, toolVars>>
  \/ InitializeCaches /\ UNCHANGED <<pairVars, hostVars, toolVars>>
  \/ CapabilitiesListsTools /\ UNCHANGED <<pairVars, hostVars, toolVars>>
  \/ CapabilitiesListsResources /\ UNCHANGED <<pairVars, hostVars, toolVars>>
  \/ CapabilitiesListed /\ UNCHANGED <<pairVars, hostVars, toolVars>>
  \/ \E userInput \in Inputs : Prompt(userInput) /\ UNCHANGED <<pairVars, hostVars, toolVars>>
  \/ OuterCatchCleans /\ UNCHANGED <<pairVars, hostVars, toolVars>>
  \/ CleanupGoesOn /\ UNCHANGED <<pairVars, hostVars, toolVars>>
  \/ MessageGoesOn /\ UNCHANGED <<pairVars, hostVars, toolVars>>

\* one run of runExample, from the construction of the agent on
SpecSession == InitRun /\ [][SessionNext]_vars

(***************************************************************************)
(* Two processMessage in progress at once on one agent: the second is      *)
(* called while the first awaits.                                          *)
(***************************************************************************)
\* lines 58-101, 112: the local variables of the processMessage running
\* (messages, maxSteps, assistantMessage, the position in the for loop),
\* with what it has requested and returned
Locals ==
  [pc |-> pc, messages |-> messages, maxSteps |-> maxSteps, assistantAt |-> assistantAt,
   idx |-> idx, result |-> result, asks |-> asks, log |-> log, lastCall |-> lastCall]

\* one list and one budget kept on the agent, that every call works on
Shared(mine, others) == others

\* lines 58, 101: `const messages` and `let maxSteps` are declared inside
\* processMessage: a call that resumes finds its own, not those of the
\* call that ran meanwhile
Own(mine, others) == mine

\* the message each of the two callers passes
TaskOf(n) == IF n = 1 THEN <<"say", SPACE, "hello">> ELSE <<"book", SPACE, "a", SPACE, "ride">>

\* an agent, initialized or not, on which no processMessage was called
InitPair ==
  /\ connected \in BOOLEAN
  /\ live = connected
  /\ availableTools = (IF connected THEN Catalog ELSE <<>>)
  /\ cpc = [c \in Connects |-> "none"]
  /\ own = [c \in Connects |-> 0]
  /\ transport = (IF connected THEN 1 ELSE 0)
  /\ spawned = (IF connected THEN {1} ELSE {})
  /\ dpc = "none"
  /\ pending = NoPending
  /\ lastOp = NoOp
  /\ pc = "idle"
  /\ messages = <<>>
  /\ maxSteps = 0
  /\ assistantAt = 0
  /\ idx = 0
  /\ result = NoOutcome
  /\ asks = 0
  /\ log = <<>>
  /\ lastCall = NoCall
  /\ direct = NoDirect
  /\ spc = "off"
  /\ cleanups = 0
  /\ fatal = NoFatal
  /\ parked = NoLocals
  /\ who = 1
  /\ agentInstance = 0
  /\ built = 0
  /\ inits = 0
  /\ apiKey = TRUE
  /\ reqs = [r \in 1..2 |-> NoRequest]
  /\ tool = [i \in 1..2 |-> NoInvocation]
  /\ privateKey = TRUE
  /\ scenario = "pair"
  /\ varied = 0

\* line 54: the caller number `who` calls processMessage
PairStart ==
  /\ pc = "idle"
  /\ Start(TaskOf(who))
  /\ UNCHANGED <<sessVars, pairVars, hostVars, toolVars>>

\* the processMessage running goes on to its next await (the runs explored
\* request at most MaxBatch tool calls in each processMessage, and only the
\* first of the two departs from the nominal run)
PairGoesOn ==
  /\ \/ AskFails
     \/ AskReturnsFinal
     \/ AskReturnsCalls
     \/ CallReturns
  /\ asks' <= MaxRounds + 1
  /\ Len(log') <= MaxBatch
  /\ who = 2 => varied' = varied
  /\ UNCHANGED <<sessVars, pairVars, hostVars, toolVars>>

\* lines 105, 128: while the processMessage running awaits (or once it is
\* over), the other one runs: it is called, or the request it awaited is
\* answered
Swap ==
  /\ who' = 3 - who
  /\ parked' = [Locals EXCEPT !.messages = Own(messages, parked.messages),
                              !.maxSteps = Own(maxSteps, parked.maxSteps)]
  /\ messages' = Own(parked.messages, messages)
  /\ maxSteps' = Own(parked.maxSteps, maxSteps)
  /\ pc' = parked.pc
  /\ assistantAt' = parked.assistantAt
  /\ idx' = parked.idx
  /\ result' = parked.result
  /\ asks' = parked.asks
  /\ log' = parked.log
  /\ lastCall' = parked.lastCall
  /\ UNCHANGED <<availableTools, direct, scenario, varied>>
  /\ UNCHANGED clientVars

\* the caller that is not running takes over once the first has called
Switch ==
  /\ pc # "idle"
  /\ Swap
  /\ UNCHANGED <<sessVars, hostVars, toolVars>>

PairNext ==
  \/ PairStart
  \/ PairGoesOn
  \/ Switch

\* two callers of processMessage on one agent
SpecPair == InitPair /\ [][PairNext]_vars

(***************************************************************************)
(* An owner that calls the methods of one agent, one at a time and in any  *)
(* order: initialize, listCapabilities, processMessage,                    *)
(* executeBrowserTask, cleanup.                                            *)
(***************************************************************************)
\* the agent after its construction (lines 14-22)
InitOwner ==
  /\ connected = FALSE
  /\ cpc = [c \in Connects |-> "none"]
  /\ own = [c \in Connects |-> 0]
  /\ transport = 0
  /\ spawned = {}
  /\ dpc = "none"
  /\ pending = NoPending
  /\ lastOp = NoOp
  /\ live = FALSE
  /\ availableTools = <<>>
  /\ pc = "idle"
  /\ messages = <<>>
  /\ maxSteps = 0
  /\ assistantAt = 0
  /\ idx = 0
  /\ result = NoOutcome
  /\ asks = 0
  /\ log = <<>>
  /\ lastCall = NoCall
  /\ direct = NoDirect
  /\ spc = "constructed"
  /\ cleanups = 0
  /\ fatal = NoFatal
  /\ parked = NoLocals
  /\ who = 1
  /\ agentInstance = 0
  /\ built = 0
  /\ inits = 0
  /\ apiKey = TRUE
  /\ reqs = [r \in 1..2 |-> NoRequest]
  /\ tool = [i \in 1..2 |-> NoInvocation]
  /\ privateKey = TRUE
  /\ scenario = "owner"
  /\ varied = 0

\* no method of the agent is in progress
AtRest == spc \in {"constructed", "initialized", "prompt", "caught", "exit0", "exit1"}

\* the owner, whatever the last method returned or threw, turns to its
\* next call: initialize() (from "constructed"), listCapabilities() (from
\* "initialized"), or processMessage, executeBrowserTask or cleanup()
\* (from "prompt"); the runs explored make at most MaxConnects cleanups,
\* and their conversations follow the nominal run
OwnerTurns(to) ==
  /\ AtRest
  /\ cleanups < MaxConnects
  /\ spc' = to
  /\ spc' # spc
  /\ fatal' = NoFatal
  /\ UNCHANGED cleanups
  /\ UNCHANGED <<agentVars, pairVars, hostVars, toolVars>>
  /\ UNCHANGED clientVars

\* lines 166-175: the owner calls executeBrowserTask, which throws at once
\* on a Client that is not connected and is awaited otherwise
OwnerExecutes(taskDescription, toolName, args) ==
  /\ spc = "prompt"
  /\ ExecuteBrowserTask(taskDescription, toolName, args)
  /\ spc' = (IF pc' \in Settled THEN "prompt" ELSE "message")
  /\ UNCHANGED <<cleanups, fatal>>
  /\ UNCHANGED <<pairVars, hostVars, toolVars>>

\* a return of callTool after which the catalog is dropped
DirectEnds ==
  /\ spc = "message"
  /\ pc = "direct"
  /\ \E host \in DispatchAnswers :
       /\ direct' = [direct EXCEPT !.resp = host]
       /\ result' = ExecuteOutcome(CallToolOutcome(host))
  /\ pc' = (IF result'.threw THEN "directThrown" ELSE "directDone")
  /\ availableTools' = <<>>
  /\ spc' = "prompt"
  /\ UNCHANGED <<messages, maxSteps, assistantAt, idx, asks, log, lastCall, scenario, varied>>
  /\ UNCHANGED clientVars
  /\ UNCHANGED <<cleanups, fatal>>
  /\ UNCHANGED <<pairVars, hostVars, toolVars>>

\* lines 170, 176-179: the callTool of executeBrowserTask returns or
\* throws, and so does executeBrowserTask
OwnerDirectReturns ==
  /\ spc = "message"
  /\ DirectReturns
  /\ spc' = "prompt"
  /\ UNCHANGED <<cleanups, fatal>>
  /\ UNCHANGED <<pairVars, hostVars, toolVars>>

OwnerNext ==
  \/ \E to \in {"constructed", "initialized", "prompt"} : OwnerTurns(to)
  \/ InitializeConnects /\ UNCHANGED <<pairVars, hostVars, toolVars>>
  \/ InitializeConnecting /\ UNCHANGED <<pairVars, hostVars, toolVars>>
  \/ InitializeLists /\ UNCHANGED <<pairVars, hostVars, toolVars>>
  \/ InitializeListed /\ UNCHANGED <<pairVars, hostVars, toolVars>>
  \/ InitializeCaches /\ UNCHANGED <<pairVars, hostVars, toolVars>>
  \/ CapabilitiesListsTools /\ UNCHANGED <<pairVars, hostVars, toolVars>>
  \/ CapabilitiesListsResources /\ UNCHANGED <<pairVars, hostVars, toolVars>>
  \/ CapabilitiesListed /\ UNCHANGED <<pairVars, hostVars, toolVars>>
  \/ \E userInput \in Inputs : Prompt(userInput) /\ UNCHANGED <<pairVars, hostVars, toolVars>>
  \/ CleanupGoesOn /\ UNCHANGED <<pairVars, hostVars, toolVars>>
  \/ MessageGoesOn /\ varied' = varied /\ UNCHANGED <<pairVars, hostVars, toolVars>>
  \/ \E t \in Tasks, n \in ToolNamesGiven, a \in ArgsGiven : OwnerExecutes(t, n, a)
  \/ OwnerDirectReturns

\* one agent and the calls of its owner
SpecOwner == InitOwner /\ [][OwnerNext]_vars

(***************************************************************************)
(* The hosting servers (payment server, evvm-server.ts, echo-server.ts):   *)
(* getAgent() and the POST /request-uber handler, for two requests.        *)
(***************************************************************************)
\* req.body.destination: missing, empty, an address
Destinations == { Undefined, Str(<<>>), Str(<<"airport">>) }

\* lines 137-142: the task built around the destination
UberTask(destination) ==
  <<"Go to: https://www.uber.com/ar/en/rider-home/ Locate the \"Enter destination\" field, input the destination \"">>
    \o destination[2]
    \o <<"\". (...) Return a JSON object with the status, destination, ride type, price, and confirmation text if successful.">>

\* lines 126-130
BadRequest ==
  [code |-> 400,
   body |-> Obj(<< <<<<"status">>, Str(<<"error">>)>>,
                   <<<<"summary">>, Str(<<"Missing destination parameter">>)>>,
                   <<<<"data">>, Obj(<< <<<<"error">>, Str(<<"destination is required">>)>> >>)>> >>)]

\* lines 166-173
ServerError(destination, e) ==
  [code |-> 500,
   body |-> Obj(<< <<<<"status">>, Str(<<"error">>)>>,
                   <<<<"summary">>, Str(<<"Failed to request Uber ride to ">> \o destination[2])>>,
                   <<<<"data">>, Obj(<< <<<<"destination">>, destination>>,
                                         <<<<"error">>, Str(ErrorText(e))>> >>)>> >>)]

\* lines 153-157: the wrapper of a result that is not JSON
Wrapper(destination, res) ==
  Obj(<< <<<<"status">>, Str(<<"completed">>)>>,
         <<<<"summary">>, res>>,
         <<<<"data">>, Obj(<< <<<<"destination">>, destination>> >>)>> >>)

\* a handler that wraps every result
AlwaysWrapped(destination, res) == Wrapper(destination, res)

\* lines 148-158: the result parsed as JSON, or wrapped
ParsedResult(destination, res) ==
  IF IsString(res)
    THEN LET r == JSON_parse(res[2])
         IN  IF r.ok THEN r.v ELSE Wrapper(destination, res)
    ELSE res

\* line 162: res.json(parsedResult)
Success(destination, res) == [code |-> 200, body |-> ParsedResult(destination, res)]

\* line 16
NoApiKey == Err("Error", <<"OPENAI_API_KEY not found in environment variables">>)

\* a getAgent() that builds an agent at every call
AlwaysBuilds(instance) == TRUE

\* line 13: `!agentInstance`
NeedsAgent(instance) == instance = 0

\* initialize() has returned normally on the agent that agentInstance holds
Ready == spc = "initialized"

\* the handler of request r sends a response and is over
Send(r, response) ==
  reqs' = [reqs EXCEPT ![r].responses = Append(@, response), ![r].at = "responded"]

\* the request with destination d is answered at once
SendAt(r, d, response) ==
  reqs' = [reqs EXCEPT ![r].responses = Append(@, response), ![r].at = "responded",
                       ![r].destination = d]

\* lines 19-24 run without an await in between: nothing else runs between
\* the construction of the agent and the call of initialize()
NoBuildInProgress == \A q \in 1..2 : reqs[q].at # "built"

\* the server process at its start (line 10); of the runs explored, "solo"
\* has one request and "duo" two
InitServer ==
  /\ connected = FALSE
  /\ cpc = [c \in Connects |-> "none"]
  /\ own = [c \in Connects |-> 0]
  /\ transport = 0
  /\ spawned = {}
  /\ dpc = "none"
  /\ pending = NoPending
  /\ lastOp = NoOp
  /\ live = FALSE
  /\ availableTools = <<>>
  /\ pc = "idle"
  /\ messages = <<>>
  /\ maxSteps = 0
  /\ assistantAt = 0
  /\ idx = 0
  /\ result = NoOutcome
  /\ asks = 0
  /\ log = <<>>
  /\ lastCall = NoCall
  /\ direct = NoDirect
  /\ spc = "off"
  /\ cleanups = 0
  /\ fatal = NoFatal
  /\ parked = NoLocals
  /\ who = 1
  /\ agentInstance = 0
  /\ built = 0
  /\ inits = 0
  /\ apiKey \in BOOLEAN
  /\ reqs = [r \in 1..2 |-> NoRequest]
  /\ tool = [i \in 1..2 |-> NoInvocation]
  /\ privateKey = TRUE
  /\ scenario \in {"solo", "duo"}
  /\ varied = 0

\* lines 122-134, 12-26: request r arrives with destination d. Without a
\* destination it is answered 400. Otherwise getAgent() is called: it
\* throws without API key, constructs the agent when there is none, and
\* returns the agent there is otherwise
Arrives(r, d) ==
  /\ reqs[r].at = "none"
  /\ r = 2 => (reqs[1].at # "none" /\ scenario = "duo")
  /\ NoBuildInProgress
  /\ IF ~Truthy(d)
       THEN /\ SendAt(r, d, BadRequest)
            /\ UNCHANGED <<agentInstance, built, spc, availableTools>>
       ELSE IF NeedsAgent(agentInstance)
         THEN IF ~apiKey
                THEN /\ SendAt(r, d, ServerError(d, NoApiKey))
                     /\ UNCHANGED <<agentInstance, built, spc, availableTools>>
                ELSE /\ agentInstance' = built + 1
                     /\ built' = built + 1
                     /\ spc' = "constructed"
                     /\ availableTools' = <<>>
                     /\ reqs' = [reqs EXCEPT ![r].at = "built", ![r].destination = d]
         ELSE /\ reqs' = [reqs EXCEPT ![r].at = "resolved", ![r].destination = d,
                                      ![r].agent = agentInstance, ![r].ready = Ready]
              /\ UNCHANGED <<agentInstance, built, spc, availableTools>>
  /\ UNCHANGED <<pc, messages, maxSteps, assistantAt, idx, result, asks, log, lastCall, direct,
                  scenario, varied>>
  /\ UNCHANGED <<cleanups, fatal, inits, apiKey>>
  /\ UNCHANGED pairVars
  /\ UNCHANGED clientVars

\* line 24: getAgent() calls initialize() on the agent it has constructed
GetAgentInitializes(r) ==
  /\ reqs[r].at = "built"
  /\ InitializeConnects
  /\ inits' = inits + 1
  /\ reqs' = [reqs EXCEPT ![r].at = "building"]
  /\ UNCHANGED <<agentInstance, built, apiKey>>
  /\ UNCHANGED pairVars

\* line 24: the initialize() awaited goes on
InitializeGoesOn ==
  /\ \/ InitializeConnecting
     \/ InitializeLists
     \/ InitializeListed
     \/ InitializeCaches
  /\ UNCHANGED <<pairVars, hostVars, toolVars>>

\* lines 24-26, 164-173: the initialize() that getAgent() awaited is over:
\* getAgent() returns the agent, or throws the error, which the handler
\* answers with 500
GetAgentSettles(r) ==
  /\ reqs[r].at = "building"
  /\ spc \in {"initialized", "caught"}
  /\ IF spc = "caught"
       THEN Send(r, ServerError(reqs[r].destination, fatal.e))
       ELSE reqs' = [reqs EXCEPT ![r].at = "resolved", ![r].agent = agentInstance,
                                 ![r].ready = Ready]
  /\ UNCHANGED <<agentInstance, built, inits, apiKey>>
  /\ UNCHANGED <<agentVars, sessVars, pairVars>>
  /\ UNCHANGED clientVars

\* the handler of the other request resumes
ServerSwitch ==
  /\ reqs[3 - who].at \in {"resolved", "message"}
  /\ NoBuildInProgress
  /\ Swap
  /\ UNCHANGED <<sessVars, hostVars, toolVars>>

\* lines 134-145: with the agent, the handler builds the task and calls
\* processMessage
CallsProcessMessage(r) ==
  /\ reqs[r].at = "resolved"
  /\ who = r
  /\ NoBuildInProgress
  /\ Start(UberTask(reqs[r].destination))
  /\ reqs' = [reqs EXCEPT ![r].at = "message"]
  /\ UNCHANGED <<agentInstance, built, inits, apiKey>>
  /\ UNCHANGED <<sessVars, pairVars>>

\* lines 145-173: the processMessage awaited goes on; when it returns, the
\* handler answers with its result, parsed or wrapped; when it throws, with
\* 500.  (The runs explored: with two requests, short conversations
\* that follow the nominal run; with one, long conversations that depart
\* from the nominal run in their first rounds.)
HandlerAwaits(r) ==
  /\ reqs[r].at = "message"
  /\ who = r
  /\ NoBuildInProgress
  /\ \/ AskFails
     \/ AskReturnsFinal
     \/ AskReturnsCalls
     \/ CallReturns
  /\ IF scenario = "duo"
       THEN /\ asks' <= MaxRounds + 1
            /\ Len(log') <= MaxBatch
            /\ varied' = varied
       ELSE asks' <= MaxRounds + 1 \/ varied' = varied
  /\ IF pc' \in Settled
       THEN Send(r, IF result'.threw THEN ServerError(reqs[r].destination, result'.e)
                    ELSE Success(reqs[r].destination, result'.v))
       ELSE UNCHANGED reqs
  /\ UNCHANGED <<agentInstance, built, inits, apiKey>>
  /\ UNCHANGED <<sessVars, pairVars>>

ServerNext ==
  \/ \E r \in 1..2, d \in Destinations : Arrives(r, d) /\ UNCHANGED toolVars
  \/ \E r \in 1..2 : GetAgentInitializes(r) /\ UNCHANGED toolVars
  \/ InitializeGoesOn /\ UNCHANGED toolVars
  \/ \E r \in 1..2 : GetAgentSettles(r) /\ UNCHANGED toolVars
  \/ ServerSwitch /\ UNCHANGED toolVars
  \/ \E r \in 1..2 : CallsProcessMessage(r) /\ UNCHANGED toolVars
  \/ \E r \in 1..2 : HandlerAwaits(r) /\ UNCHANGED toolVars

\* a hosting server that receives up to two POST /request-uber
SpecServer == InitServer /\ [][ServerNext]_vars

(***************************************************************************)
(* The request_uber_evvm tool of echo-server.ts.                           *)
(***************************************************************************)
\* extra._meta?.progressToken: absent, the empty string, a token
Tokens == {Undefined, Str(<<>>), Str(<<"tok">>)}

Ride == Str(<<"airport">>)

\* the helper progress(p, total, message), lines 432-446: it sends nothing
\* without a token, else one notification (`by` tells the caller: the
\* handler itself or the callback of the interval timer)
progress(notes, token, p, by) ==
  IF ~Truthy(token) THEN notes
  ELSE Append(notes, [progressToken |-> token, progress |-> p, total |-> 100, by |-> by])

\* lines 470-472 at the n-th callback: 10 s apart, Math.min(30 + elapsed * 2, 90)
CurrentProgress(n) ==
  LET elapsed == 10 * n
  IN  IF 30 + elapsed * 2 < 90 THEN 30 + elapsed * 2 ELSE 90

\* clearInterval(progressInterval)
ClearInterval(timer) == IF timer = "set" THEN "cleared" ELSE timer

\* a handler without its finally block
FinallyLeaves(timer) == timer

\* lines 515-517: finally { clearInterval(progressInterval) }
Finally(timer) == ClearInterval(timer)

\* lines 520-533: the result of the outer catch
errorResult(e) ==
  Obj(<< <<<<"status">>, Str(<<"error">>)>>,
         <<<<"summary">>, Str(<<"Failed to request Uber to ">> \o Ride[2])>>,
         <<<<"data">>, Obj(<< <<<<"destination">>, Ride>>,
                              <<<<"error">>, Str(ErrorText(e))>> >>)>> >>)

\* what api.post may give: a response with the x-payment-response header
\* valid, absent, or one that decodeEVVMPaymentResponse rejects; an error
PostOutcomes ==
  { [threw |-> FALSE, header |-> h, e |-> Err("", <<>>)] : h \in {"valid", "absent", "garbled"} }
    \cup { [threw |-> TRUE, header |-> "absent",
            e |-> Err("AxiosError", <<"Request failed with status code 402">>)] }

DecodeError == Err("SyntaxError", <<"Unexpected token">>)

\* lines 493-504: { ...response.data, paymentInfo }
RideResult(header) ==
  Obj(<< <<<<"status">>, Str(<<"success">>)>>,
         <<<<"paymentInfo">>,
           IF header = "valid"
             THEN Obj(<< <<<<"paid">>, <<"bool", TRUE>>>>,
                         <<<<"transactionHash">>, Str(<<"0xabc">>)>> >>)
             ELSE Obj(<< <<<<"paid">>, <<"bool", TRUE>>>> >>)>> >>)

InitTool ==
  /\ connected = FALSE
  /\ cpc = [c \in Connects |-> "none"]
  /\ own = [c \in Connects |-> 0]
  /\ transport = 0
  /\ spawned = {}
  /\ dpc = "none"
  /\ pending = NoPending
  /\ lastOp = NoOp
  /\ live = FALSE
  /\ availableTools = <<>>
  /\ pc = "idle"
  /\ messages = <<>>
  /\ maxSteps = 0
  /\ assistantAt = 0
  /\ idx = 0
  /\ result = NoOutcome
  /\ asks = 0
  /\ log = <<>>
  /\ lastCall = NoCall
  /\ direct = NoDirect
  /\ spc = "off"
  /\ cleanups = 0
  /\ fatal = NoFatal
  /\ parked = NoLocals
  /\ who = 1
  /\ agentInstance = 0
  /\ built = 0
  /\ inits = 0
  /\ apiKey = TRUE
  /\ reqs = [r \in 1..2 |-> NoRequest]
  /\ tool = [i \in 1..2 |-> NoInvocation]
  /\ privateKey \in BOOLEAN
  /\ scenario = "tool"
  /\ varied = 0

\* lines 426-478: the handler is called and runs to its await of api.post,
\* or to the return of its outer catch when the private key is missing
ToolCalled(i, token) ==
  /\ tool[i].at = "none"
  /\ LET n0 == progress(<<>>, token, 0, "handler")
         n1 == progress(n0, token, 10, "handler")
         n2 == progress(n1, token, 20, "handler")
     IN  tool' = [tool EXCEPT ![i] =
           IF ~privateKey
             THEN [at |-> "returned", token |-> token, timer |-> "none", fired |-> 0,
                   notes |-> n0,
                   returned |-> errorResult(Err("Error",
                     <<"EVVM_PRIVATE_KEY not found in environment variables">>))]
             ELSE [at |-> "posting", token |-> token, timer |-> "set", fired |-> 0,
                   notes |-> n2, returned |-> <<"none">>]]
  /\ UNCHANGED privateKey
  /\ UNCHANGED <<clientVars, agentVars, sessVars, pairVars, hostVars>>

\* lines 469-473: the callback of setInterval runs, as it does every 10 s
\* for as long as the interval has not been cleared
TimerFires(i) ==
  /\ tool[i].timer = "set"
  /\ tool[i].fired < MaxTicks
  /\ tool' = [tool EXCEPT ![i].fired = @ + 1,
                          ![i].notes = progress(@, tool[i].token,
                                                CurrentProgress(tool[i].fired + 1), "timer")]
  /\ UNCHANGED privateKey
  /\ UNCHANGED <<clientVars, agentVars, sessVars, pairVars, hostVars>>

\* lines 475-533: api.post settles and the handler runs to its return
PostSettles(i, o) ==
  /\ tool[i].at = "posting"
  /\ LET t  == tool[i]
         n1 == progress(t.notes, t.token, 95, "handler")
         n2 == progress(n1, t.token, 100, "handler")
     IN  tool' = [tool EXCEPT ![i] =
           CASE o.threw ->
                  [t EXCEPT !.at = "returned", !.timer = Finally(t.timer),
                            !.returned = errorResult(o.e)]
             [] ~o.threw /\ o.header = "garbled" ->
                  [t EXCEPT !.at = "returned", !.timer = Finally(ClearInterval(t.timer)),
                            !.notes = n1, !.returned = errorResult(DecodeError)]
             [] OTHER ->
                  [t EXCEPT !.at = "returned", !.timer = Finally(ClearInterval(t.timer)),
                            !.notes = n2, !.returned = RideResult(o.header)]]
  /\ UNCHANGED privateKey
  /\ UNCHANGED <<clientVars, agentVars, sessVars, pairVars, hostVars>>

ToolNext ==
  \/ \E i \in 1..2, token \in Tokens : ToolCalled(i, token)
  \/ \E i \in 1..2 : TimerFires(i)
  \/ \E i \in 1..2, o \in PostOutcomes : PostSettles(i, o)

\* a tool host that receives up to two calls of request_uber_evvm
SpecTool == InitTool /\ [][ToolNext]_vars

(***************************************************************************)
(* Properties of processMessage.                                           *)
(***************************************************************************)
Running  == pc \in {"asking", "calling"}
Returned_ == pc \in {"done", "exhausted"}

\* the positions of the assistant messages that carry tool calls
Batches == { p \in 1..Len(messages) :
               messages[p].role = "assistant" /\ Len(messages[p].tool_calls) > 0 }

\* the tool-call requests of the conversation
Requests ==
  { r \in UNION { { messages[p].tool_calls[i] : i \in 1..Len(messages[p].tool_calls) } :
                    p \in Batches } : TRUE }

\* the name of the tool the request `id` asks for
ToolOf(id) == (CHOOSE r \in Requests : r.id = id).name

\* the positions of the tool-role messages that answer the call `id`
AnswersTo_(id) == { q \in 1..Len(messages) :
                      messages[q].role = "tool" /\ messages[q].tool_call_id = id }

\* the batch at p is followed by one tool-role message per request, in order
AnsweredInOrder(p) ==
  LET batch == messages[p].tool_calls
  IN  /\ p + Len(batch) <= Len(messages)
      /\ \A i \in 1..Len(batch) :
           /\ messages[p + i].role = "tool"
           /\ messages[p + i].tool_call_id = batch[i].id
      /\ p + Len(batch) < Len(messages) => messages[p + Len(batch) + 1].role = "assistant"

\* the log entry of the request `id`, if it has been processed
Logged(id) == { j \in 1..Len(log) : log[j].id = id }

\* C1: at every submission to the completion endpoint, each tool-call request
\* of each assistant message of the conversation has exactly one tool-role
\* message with its id.
C1_NoDanglingCallAtAsk ==
  pc = "asking" =>
    \A p \in Batches : \A i \in 1..Len(messages[p].tool_calls) :
      Cardinality(AnswersTo_(messages[p].tool_calls[i].id)) = 1

C1_Witness ==
  /\ pc = "asking"
  /\ \E p \in Batches : Len(messages[p].tool_calls) >= 2

\* C2: when the next completion is requested (or processMessage has
\* returned), every batch of N requests is directly followed by exactly N
\* tool-role messages, the i-th answering the i-th request, whether the
\* calls succeeded or failed.
C2_BatchAnsweredInOrder ==
  pc \in {"asking", "done", "exhausted"} => \A p \in Batches : AnsweredInOrder(p)

C2_Witness ==
  /\ pc = "asking"
  /\ \E p \in Batches :
       /\ Len(messages[p].tool_calls) >= 2
       /\ \E j, k \in 1..Len(log) : log[j].failed /\ ~log[k].failed /\ log[k].done
            /\ log[j].id = messages[p].tool_calls[1].id
            /\ log[k].id = messages[p].tool_calls[2].id

\* the requests of the batch at p whose call failed
FailedIn(p) ==
  { i \in 1..Len(messages[p].tool_calls) :
      \E j \in Logged(messages[p].tool_calls[i].id) : log[j].failed }

\* the for loop over the batch at p has been left
BatchOver(p) == ~(pc = "calling" /\ p = assistantAt)

\* C3: once the for loop over a batch of N > 1 requests is over, if request
\* i failed (its arguments did not parse or callTool threw), every other
\* request j has its own tool-role message at its own position and, its
\* arguments parsing, has been passed to callTool.
C3_PerCallIsolation ==
  \A p \in Batches :
    LET batch == messages[p].tool_calls
    IN  (Len(batch) > 1 /\ BatchOver(p)) =>
          \A i \in FailedIn(p) : \A j \in 1..Len(batch) \ {i} :
            /\ p + j <= Len(messages)
            /\ messages[p + j].role = "tool"
            /\ messages[p + j].tool_call_id = batch[j].id
            /\ JSON_parse(batch[j].arguments).ok =>
                 \E e \in Logged(batch[j].id) : log[e].called

C3_Witness ==
  /\ pc = "asking"
  /\ \E p \in Batches :
       /\ Len(messages[p].tool_calls) >= 2
       /\ \E j, k \in 1..Len(log) :
            /\ log[j].id = messages[p].tool_calls[1].id
            /\ log[j].sent /\ log[j].failed
            /\ log[k].id = messages[p].tool_calls[2].id
            /\ log[k].sent /\ log[k].done /\ ~log[k].failed

\* C4: the loop never asks more than 20 times; it is left by the exhaustion
\* exit exactly when 20 assistant messages with tool calls have been
\* dispatched, and then returns the sentinel without throwing; no other
\* exit returns the sentinel.
C4_ExhaustionSentinel ==
  /\ asks <= StepBudget
  /\ pc = "exhausted" =>
       /\ result = Returned(Str(Sentinel))
       /\ asks = StepBudget
       /\ Cardinality(Batches) = StepBudget
       /\ maxSteps = 0
  /\ (Cardinality(Batches) = StepBudget /\ pc # "calling") => pc = "exhausted"
  /\ pc \in {"done", "thrown"} => result # Returned(Str(Sentinel))

C4_Witness ==
  /\ pc = "exhausted"
  /\ result = Returned(Str(Sentinel))
  /\ \E j \in 1..Len(log) : log[j].failed

\* C5: every processMessage ends (done, exhausted or thrown) when each
\* completion request and each tool call awaited ends, after at most 20
\* completion requests.
C5_Terminates ==
  /\ [](asks <= StepBudget)
  /\ Running ~> (pc \in {"done", "exhausted", "thrown"})

C5_Witness ==
  /\ pc = "thrown"
  /\ asks = StepBudget

\* the first assistant message of the conversation carries no tool calls
FirstIsFinal ==
  /\ Len(messages) >= 3
  /\ messages[3].role = "assistant"
  /\ messages[3].tool_calls = <<>>

\* C6 as stated: when the first assistant message has no tool calls,
\* processMessage returns its content unchanged after one completion
\* request and no call of the Client.
C6_FirstAnswerUnchanged ==
  FirstIsFinal =>
    /\ result = Returned(messages[3].content)
    /\ asks = 1
    /\ log = <<>>

\* C6 as amended: when the first assistant message has no tool calls,
\* processMessage returns its content unchanged if that is a non-empty
\* text and "Task completed" if it is empty or missing, after one
\* completion request and no call of the Client.
C6_FirstAnswerReturned ==
  FirstIsFinal =>
    /\ pc = "done"
    /\ result = Returned(IF messages[3].content \in {<<"null">>, Str(<<>>)}
                           THEN Str(<<"Task completed">>)
                           ELSE messages[3].content)
    /\ asks = 1
    /\ log = <<>>

C6_Witness ==
  /\ FirstIsFinal
  /\ messages[3].content = Str(<<"hi">>)
  /\ result = Returned(Str(<<"hi">>))

\* C7: a method of the Client called when no connect() has succeeded (or
\* after a disconnect()), no connect() or disconnect() being in progress,
\* fails with the not-connected error and sends no request.
C7_NotConnectedFailsFast ==
  (lastOp.op \in ClientOps /\ ~lastOp.live /\ lastOp.quiet) =>
    /\ lastOp.outcome = Threw(NotConnected)
    /\ ~lastOp.sent

\* C8: callTool returns v when the host answers with one text item holding
\* JSON.stringify(v) of an object v, and returns the text itself, without
\* throwing, when the text is not JSON.
C8_DecodeRoundTrip ==
  (lastOp.op = "callTool" /\ lastOp.sent) =>
    /\ \A v \in SampleObjects :
         lastOp.resp = Returned(Response(<<TextItem(JSON_stringify(v))>>))
           => lastOp.outcome = Returned(v)
    /\ \A t \in NonJSONTexts :
         lastOp.resp = Returned(Response(<<TextItem(t)>>))
           => lastOp.outcome = Returned(Str(t))

C8_Witness ==
  /\ lastOp.op = "callTool"
  /\ lastOp.resp = Returned(Response(<<TextItem(<<"{">> \o Lit("text") \o <<":">>)>>))
  /\ lastOp.outcome = Returned(Str(<<"{">> \o Lit("text") \o <<":">>))

\* C9: the tool-role message of a call that succeeded holds the host's text
\* itself, when that is JSON.stringify(v) of an object v and when it is not
\* JSON.
C9_ToolContentRoundTrip ==
  (lastCall.id # 0 /\ ~lastCall.ret.threw) =>
    \A q \in AnswersTo_(lastCall.id) :
      /\ \A v \in SampleObjects :
           lastCall.resp = Returned(Response(<<TextItem(JSON_stringify(v))>>))
             => messages[q].content = Str(JSON_stringify(v))
      /\ \A t \in NonJSONTexts :
           lastCall.resp = Returned(Response(<<TextItem(t)>>))
             => messages[q].content = Str(t)

C9_Witness ==
  /\ lastCall.resp = NominalOutcome
  /\ \E q \in AnswersTo_(lastCall.id) :
       messages[q].content =
         Str(<<"{">> \o Lit("text") \o <<":", QUOTE, "echo", ":", SPACE, "x", QUOTE, "}">>)

\* C10: no failure of a tool call leaves processMessage: the only error it
\* throws is that of a completion request, and every call that failed has
\* a tool-role message whose content is an error text naming the tool.
C10_DispatchNeverThrows ==
  /\ pc = "thrown" => result.e.name = "APIError"
  /\ \A j \in 1..Len(log) :
       (log[j].done /\ log[j].failed) =>
         \E q \in AnswersTo_(log[j].id) :
           /\ Len(messages[q].content[2]) > 4
           /\ SubSeq(messages[q].content[2], 1, 4)
                = <<"Error executing ", ToolOf(log[j].id), ":", SPACE>>

C10_Witness ==
  /\ pc = "asking"
  /\ \E j \in 1..Len(log) : log[j].sent /\ log[j].failed
  /\ \E j \in 1..Len(log) : ~log[j].called /\ log[j].failed

\* the content of a tool-role message is the error text of a failed call
IsErrorContent(content, name) ==
  /\ content[1] = "str"
  /\ Len(content[2]) > 4
  /\ SubSeq(content[2], 1, 4) = <<"Error executing ", name, ":", SPACE>>

\* C11: a request whose arguments are not valid JSON is never passed to
\* callTool; once processed it has a tool-role error message with its id;
\* and after its batch the loop goes on to the next completion request (or
\* to the exhaustion exit): no error other than that of a completion
\* request ends the conversation.
C11_MalformedArgsNotFatal ==
  \A p \in Batches :
    LET batch == messages[p].tool_calls
    IN  \A i \in 1..Len(batch) :
          ~JSON_parse(batch[i].arguments).ok =>
            /\ \A e \in Logged(batch[i].id) :
                 /\ ~log[e].called /\ ~log[e].sent /\ log[e].failed
                 /\ \E q \in AnswersTo_(batch[i].id) :
                      IsErrorContent(messages[q].content, batch[i].name)
            /\ BatchOver(p) => Logged(batch[i].id) # {}
            /\ (BatchOver(p) /\ p = assistantAt) =>
                 \/ pc \in {"asking", "exhausted"}
                 \/ pc = "thrown" /\ result = Threw(APIError)

C11_Witness ==
  /\ pc = "done"
  /\ \E j \in 1..Len(log) : ~log[j].called /\ log[j].failed
  /\ \E p \in Batches : ~JSON_parse(messages[p].tool_calls[1].arguments).ok

\* the assistant messages of the conversation: the completion requests
\* that were answered
Answered_ == { p \in 1..Len(messages) : messages[p].role = "assistant" }

ToolMessages == { q \in 1..Len(messages) : messages[q].role = "tool" }

\* processMessage is over and its last completion request was not answered
AskFailed == pc \in {"done", "exhausted", "thrown"} /\ Cardinality(Answered_) < asks

\* C12: when a completion request fails, processMessage throws that error
\* and returns no text; the failed request is its last one, no tool call is
\* in flight and none is made after it.
C12_AskFailureThrown ==
  AskFailed =>
    /\ pc = "thrown"
    /\ result = Threw(APIError)
    /\ asks = Cardinality(Answered_) + 1
    /\ \A j \in 1..Len(log) : log[j].done
    /\ Cardinality(ToolMessages) = Len(log)
    /\ messages[Len(messages)].role # "assistant"

C12_Witness ==
  /\ pc = "thrown"
  /\ result = Threw(APIError)
  /\ asks = 2
  /\ Len(log) >= 1

\* C13 as stated: a tool call dispatched while the Client is not connected
\* makes processMessage throw the not-connected error.
C13_NotConnectedIsFatal ==
  \A j \in 1..Len(log) :
    (log[j].called /\ ~log[j].sent) => (pc = "thrown" /\ result = Threw(NotConnected))

\* C15: what processMessage returns is a non-empty string: the content of
\* the final assistant message when that is a non-empty string, "Task
\* completed" when it is empty or null, the sentinel at exhaustion.
C15_ReturnsNonEmptyString ==
  Returned_ =>
    /\ ~result.threw
    /\ result.v[1] = "str"
    /\ result.v[2] # <<>>
    /\ pc = "done" =>
         LET content == messages[assistantAt].content
         IN  /\ messages[assistantAt].tool_calls = <<>>
             /\ result.v = (IF content[1] = "str" /\ content[2] # <<>>
                              THEN content ELSE Str(Fallback))
    /\ pc = "exhausted" => result.v = Str(Sentinel)

C15_Witness ==
  /\ pc = "done"
  /\ Len(log) >= 1
  /\ messages[assistantAt].content = Str(<<>>)
  /\ result = Returned(Str(Fallback))

\* the host's answer to a call reports an error: the request was rejected
\* (a JSON-RPC error, which client.callTool throws) or the result is marked
\* isError
IsErrorFrame(resp) == resp.threw \/ Get(resp.v, <<"isError">>) = <<"bool", TRUE>>

\* C14 as stated: callTool on a connected Client throws whenever the host
\* answers with an error; no such answer is returned as a result.
C14_ErrorFrameThrows ==
  (lastOp.op = "callTool" /\ lastOp.live /\ lastOp.sent /\ IsErrorFrame(lastOp.resp)) =>
    lastOp.outcome.threw

(***************************************************************************)
(* Properties of the lifecycle of MCPClient.                               *)
(***************************************************************************)
\* C16: connect() called on a connected Client returns at once: it creates
\* no transport, starts no handshake, requests no catalog, and leaves the
\* flag, the transports and the calls in progress as they are.
C16_ConnectIdempotent ==
  [][\A c \in Connects :
       (connected /\ ConnectStart(c)) =>
         /\ connected'
         /\ transport' = transport
         /\ spawned' = spawned
         /\ cpc' = cpc
         /\ own' = own
         /\ pending' = pending
         /\ lastOp'.op = "connect"
         /\ lastOp'.outcome = Returned(Undefined)
         /\ ~lastOp'.sent]_vars

C16_Witness ==
  /\ lastOp.op = "connect"
  /\ lastOp.live
  /\ ~lastOp.sent
  /\ lastOp.outcome = Returned(Undefined)
  /\ connected
  /\ spawned = {1}
  /\ Quiet

\* C17 as stated: once disconnect() has returned and no other call is in
\* progress, the Client is disconnected.
C17_DisconnectedAfterReturn ==
  (lastOp.op = "disconnect" /\ Quiet) => ~connected

\* C18 as stated: at most one transport of a Client has a running host
\* process.
C18_AtMostOneTransport ==
  Cardinality(spawned) <= 1

\* C19 as stated: when connect() has thrown, no other call is in progress
\* and no connect() has succeeded, the Client is disconnected.
C19_FailedConnectLeavesDisconnected ==
  (lastOp.op = "connect" /\ lastOp.outcome.threw /\ ~live /\ Quiet) => ~connected

\* C20 as stated: the flag is set only by the handshake of a connect(), and
\* a method called after a disconnect() has returned, nothing else having
\* been called since, fails as not connected and sends no request.
C20_NoAutomaticReconnect ==
  [][/\ (~connected /\ connected') =>
          \E c \in Connects : cpc[c] = "handshake" /\ cpc'[c] = "listing"
     /\ \A op \in ClientOps :
          (lastOp.op = "disconnect" /\ Quiet /\ OpStart(op)) =>
            /\ pending' = pending
            /\ lastOp'.outcome = Threw(NotConnected)]_vars

(***************************************************************************)
(* Properties of the conversation of one processMessage.                   *)
(***************************************************************************)
\* a step of a running processMessage keeps the messages it had, in place;
\* if it receives an assistant message it appends that first; everything
\* else it appends is a tool-role message
Appends ==
  pc \in {"asking", "calling"} =>
    LET n == Len(messages)
        a == IF pc = "asking" /\ pc' # "thrown" THEN 1 ELSE 0
    IN  /\ Len(messages') >= n + a
        /\ SubSeq(messages', 1, n) = messages
        /\ a = 1 => messages'[n + 1].role = "assistant"
        /\ \A q \in (n + a + 1)..Len(messages') : messages'[q].role = "tool"

\* C24: while a processMessage runs its conversation only grows: every step
\* keeps the messages it had, in place; the step that receives an assistant
\* message appends it first, whatever its content, and everything else
\* appended is a tool-role message.
C24_AppendOnly == [][Appends]_vars

C24_Witness ==
  /\ pc = "asking"
  /\ asks = 3
  /\ Len(messages) >= 6
  /\ messages[3].role = "assistant"
  /\ messages[3].content = <<"null">>
  /\ messages[3].tool_calls # <<>>

\* the requests awaiting their answer: the completion request, the calls
\* sent to the host
Outstanding ==
  (IF pc = "asking" THEN 1 ELSE 0)
    + Cardinality({ j \in 1..Len(log) : log[j].sent /\ ~log[j].done })

\* C26: a processMessage has at most one request outstanding: while a call
\* awaits the host it is the only one, the requests before it in the batch
\* are answered and those after it not yet dispatched; a completion is
\* requested only when every request of every batch has its tool-role
\* message; and nothing is outstanding once processMessage is over.
C26_OneOutstandingRequest ==
  /\ Outstanding <= 1
  /\ pc = "calling" =>
       LET batch == messages[assistantAt].tool_calls
       IN  /\ log[Len(log)].sent /\ ~log[Len(log)].done
           /\ log[Len(log)].id = batch[idx].id
           /\ Len(messages) = assistantAt + idx - 1
           /\ \A i \in 1..(idx - 1) :
                /\ messages[assistantAt + i].role = "tool"
                /\ messages[assistantAt + i].tool_call_id = batch[i].id
           /\ \A i \in (idx + 1)..Len(batch) : Logged(batch[i].id) = {}
  /\ pc = "asking" =>
       /\ \A p \in Batches : AnsweredInOrder(p)
       /\ \A j \in 1..Len(log) : log[j].done
  /\ pc \in {"done", "exhausted", "thrown"} => Outstanding = 0

C26_Witness ==
  /\ pc = "calling"
  /\ idx = 2
  /\ Len(messages[assistantAt].tool_calls) = 2
  /\ log[1].sent /\ log[1].done
  /\ Outstanding = 1

\* the batches whose for loop is over
CompletedBatches == Cardinality(Batches) - (IF pc = "calling" THEN 1 ELSE 0)

\* C27: the budget is 20 less the number of batches completed, whatever
\* their size and the outcome of their calls; an assistant message without
\* tool calls leaves it as it is; and it is never negative.
C27_BudgetCountsBatches ==
  pc \in {"asking", "calling", "done", "exhausted", "thrown"} =>
    /\ maxSteps = StepBudget - CompletedBatches
    /\ maxSteps >= 0

C27_Witness ==
  /\ pc = "done"
  /\ maxSteps = StepBudget - 1
  /\ Len(messages[3].tool_calls) = 2
  /\ \E j \in 1..Len(log) : log[j].failed

\* a processMessage(t) that starts submits a system message and the user
\* message holding t, with the tools and tool_choice "auto", and has a full
\* budget and no call on record
StartsFresh ==
  \A t \in Tasks :
    Start(t) =>
      LET req == CompletionRequest(messages', availableTools')
      IN  /\ pc' = "asking"
          /\ asks' = 1
          /\ Len(req.messages) = 2
          /\ req.messages[1].role = "system"
          /\ req.messages[1].content[1] = "str"
          /\ req.messages[2] = Message("user", Str(t), <<>>, 0)
          /\ Len(req.tools) = Len(availableTools)
          /\ \A j \in 1..Len(req.tools) :
               req.tools[j].type = "function" /\ req.tools[j].name = availableTools[j]
          /\ req.tool_choice = "auto"
          /\ maxSteps' = StepBudget
          /\ log' = <<>>

\* C28: the first completion request of every processMessage(task) holds
\* two messages, the system message and the user message with the task
\* unchanged, with the tool list and tool_choice "auto", whatever an earlier
\* processMessage has left.
C28_FirstAskFresh == [][StartsFresh]_vars

C28_Witness ==
  /\ pc = "asking"
  /\ asks = 1
  /\ messages = InitialMessages(Catalog, <<"book", SPACE, "a", SPACE, "ride">>)
  /\ CompletionRequest(messages, availableTools).tools[2].name = "browser_snapshot"

\* C29 as stated: a tool-call request is processed at most once, and a
\* request is sent to the host for it exactly when its arguments parse.
C29_OneRequestPerCall ==
  \A r \in Requests :
    /\ Cardinality(Logged(r.id)) <= 1
    /\ \A e \in Logged(r.id) : log[e].sent <=> JSON_parse(r.arguments).ok

\* C29: a tool-call request is processed at most once; callTool is invoked
\* for it exactly when its arguments parse, and sends its one request to the
\* host exactly when, besides, the Client is connected; a call that has
\* failed is complete and is not sent again.
C29_OneRequestPerConnectedCall ==
  \A r \in Requests :
    /\ Cardinality(Logged(r.id)) <= 1
    /\ \A e \in Logged(r.id) :
         /\ log[e].called <=> JSON_parse(r.arguments).ok
         /\ log[e].sent <=> (JSON_parse(r.arguments).ok /\ connected)
         /\ log[e].failed => log[e].done

C29_Witness ==
  /\ pc = "done"
  /\ connected
  /\ Len(log) = 2
  /\ log[1].sent /\ log[1].failed
  /\ ~log[2].called

\* the names of the tools of the cached catalog
Listed == { availableTools[j] : j \in 1..Len(availableTools) }

\* C30: a request for a tool that the cached catalog does not list is
\* passed to callTool when its arguments parse and sent to the host when the
\* Client is connected, as any other; the host's answer decides the content
\* of its tool-role message: the result, or the error text naming the tool.
C30_UnlistedToolForwarded ==
  \A r \in Requests :
    r.name \notin Listed =>
      \A e \in Logged(r.id) :
        /\ log[e].called <=> JSON_parse(r.arguments).ok
        /\ log[e].sent <=> (JSON_parse(r.arguments).ok /\ connected)
        /\ (log[e].done /\ lastCall.id = r.id) =>
             /\ lastCall.ret = CallToolOutcome(lastCall.resp)
             /\ \E q \in AnswersTo_(r.id) :
                  messages[q].content =
                    (IF lastCall.resp.threw
                       THEN Str(<<"Error executing ", r.name, ":", SPACE>>
                                  \o ErrorText(lastCall.resp.e))
                       ELSE IF IsString(lastCall.ret.v) THEN lastCall.ret.v
                       ELSE Str(JSON_stringify(lastCall.ret.v)))

C30_Witness ==
  /\ connected
  /\ pc = "asking"
  /\ \E r \in Requests :
       /\ r.name = "navigate"
       /\ r.name \notin Listed
       /\ lastCall.id = r.id
       /\ lastCall.resp = NominalOutcome
       /\ \E q \in AnswersTo_(r.id) : messages[q].content = Str(JSON_stringify(EchoResult))


(***************************************************************************)
(* C21                                                                     *)
(***************************************************************************)
\* a tool name, or arguments, that the caller supplied: a concrete name,
\* an arguments object
Supplied(v) == v \notin {Undefined, <<"null">>, Str(<<>>)} /\ v[1] \in {"str", "obj"}

\* executeBrowserTask called its callTool itself
Direct == pc \in {"direct", "directDone", "directThrown"}

\* with a name and arguments: no completion request, one callTool with
\* that name and those arguments, whose outcome is the outcome of
\* executeBrowserTask
DirectBypasses ==
  Direct =>
    /\ asks = 0
    /\ messages = <<>>
    /\ log = <<>>
    /\ Supplied(direct.name) /\ Supplied(direct.args)
    /\ pc = "direct" => (direct.sent /\ direct.resp = NoOutcome /\ result = NoOutcome)
    /\ pc # "direct" =>
         /\ result = (IF direct.sent THEN CallToolOutcome(direct.resp) ELSE Threw(NotConnected))
         /\ result.threw <=> pc = "directThrown"

\* a call of executeBrowserTask takes the branch that the claim names, and
\* passes to callTool the name and the arguments it was given; the outcome
\* of a processMessage that it awaits passes through it unchanged
Branches ==
  /\ \A t \in Tasks, n \in ToolNamesGiven, a \in ArgsGiven :
       ExecuteBrowserTask(t, n, a) =>
         IF Supplied(n) /\ Supplied(a)
           THEN Direct' /\ direct'.name = n /\ direct'.args = a /\ asks' = 0
           ELSE /\ pc' = "asking"
                /\ direct' = NoDirect
                /\ messages' = InitialMessages(availableTools, t)
                /\ maxSteps' = StepBudget
                /\ asks' = 1
  /\ pc' \in {"done", "exhausted", "thrown"} => ExecuteOutcome(result') = result'

\* C21: executeBrowserTask with a tool name and arguments makes no
\* completion request and exactly one callTool(toolName, args), and
\* returns its result or throws its error again; without a tool name or
\* without arguments its outcome is that of processMessage(description)
C21_DirectOrDelegated == []DirectBypasses /\ [][Branches]_vars

\* executeBrowserTask threw again the error of the callTool it sent
C21_Witness ==
  /\ pc = "directThrown"
  /\ direct.sent
  /\ direct.args = Obj(<<>>)
  /\ asks = 0
  /\ result = CallToolOutcome(direct.resp)

(***************************************************************************)
(* C22, C23                                                                *)
(***************************************************************************)
\* cleanup() has been called once from where runExample is on, and never
\* before; a run ends by `exit` or by a fatal error of initialize() or
\* listCapabilities(), never by a failure of processMessage
CleansUpOnce ==
  /\ cleanups = (IF spc \in {"cleanup", "cleanup.fatal", "exit0", "exit1", "rejected"}
                   THEN 1 ELSE 0)
  /\ spc # "rejected"
  /\ spc \in {"caught", "cleanup.fatal", "exit1"} <=> fatal # NoFatal
  /\ fatal # NoFatal => fatal.from \in {"initialize", "listCapabilities"}

\* a processMessage that throws leaves the session at its prompt, with no
\* cleanup made
FailureKeepsSession ==
  (spc = "message" /\ pc' = "thrown") => (spc' = "prompt" /\ cleanups' = 0 /\ fatal' = NoFatal)

\* C22: in runExample, once the agent is constructed, cleanup() is called
\* exactly once on every exit path: after the user types exit, and after a
\* fatal error in initialize() or listCapabilities(); a failure of one
\* processMessage neither ends the session nor triggers cleanup
C22_CleanupOncePerExit == []CleansUpOnce /\ [][FailureKeepsSession]_vars

\* the session went on after a processMessage that threw, and ended by
\* `exit` with one cleanup
C22_Witness ==
  /\ spc = "exit0"
  /\ pc = "thrown"
  /\ cleanups = 1

\* C23: after initialize() has returned normally the Client is connected
\* and the cached catalog is the catalog that listTools() returned; if
\* connect() fails, initialize() throws the same error and the cached
\* catalog stays empty
C23_InitializeCaches ==
  /\ spc = "initialized" =>
       /\ connected
       /\ lastOp.op = "listTools" /\ ~lastOp.outcome.threw
       /\ availableTools = lastOp.outcome.v[2]
  /\ (spc = "caught" /\ lastOp.op = "connect") =>
       /\ lastOp.outcome.threw
       /\ fatal = Fatal("initialize", lastOp.outcome.e)
       /\ availableTools = <<>>
  /\ fatal.from = "initialize" => availableTools = <<>>

\* initialize() has returned with the catalog of one tool that its own
\* listTools() returned
C23_Witness ==
  /\ spc = "initialized"
  /\ connected
  /\ availableTools = <<"echo">>
  /\ lastOp.outcome = Returned(<<"list", <<"echo">>>>)

(***************************************************************************)
(* C25                                                                     *)
(***************************************************************************)
\* the positions of the messages of role r in the list msgs
Of(msgs, r) == { q \in 1..Len(msgs) : msgs[q].role = r }

\* the positions in msgs of the assistant messages that carry tool calls
BatchesIn(msgs) == { q \in Of(msgs, "assistant") : Len(msgs[q].tool_calls) > 0 }

\* the call number n of processMessage, whose locals are L, has a
\* conversation and a budget made of its own steps only: its list starts
\* with its own user message, holds one assistant message per completion
\* request of its own that was answered and one tool-role message per
\* tool call of its own that was answered, each after the batch that
\* requested it; its budget is 20 less the batches of its own that are over
OwnConversation(L, n) ==
  L.pc # "idle" =>
    /\ Len(L.messages) >= 2
    /\ SubSeq(L.messages, 1, 2) = InitialMessages(availableTools, TaskOf(n))
    /\ Cardinality(Of(L.messages, "assistant"))
         = L.asks - (IF L.pc = "asking" \/ L.result = Threw(APIError) THEN 1 ELSE 0)
    /\ Cardinality(Of(L.messages, "tool"))
         = Cardinality({ j \in 1..Len(L.log) : L.log[j].done })
    /\ \A q \in Of(L.messages, "tool") :
         \E b \in BatchesIn(L.messages) :
           /\ b < q
           /\ \E i \in 1..Len(L.messages[b].tool_calls) :
                L.messages[b].tool_calls[i].id = L.messages[q].tool_call_id
    /\ L.maxSteps = StepBudget - (Cardinality(BatchesIn(L.messages))
                                   - (IF L.pc = "calling" THEN 1 ELSE 0))

\* a step of one call leaves the list and the budget of the other as they
\* are; when the other call takes over, each keeps its own
Disjoint ==
  IF who' = who
    THEN parked' = parked
    ELSE /\ parked'.messages = messages /\ parked'.maxSteps = maxSteps
         /\ messages' = parked.messages /\ maxSteps' = parked.maxSteps

\* C25: two processMessage invocations in progress at once on one agent
\* have disjoint conversations and budgets: no assistant or tool-role
\* message produced for one appears in the list the other submits, and a
\* batch dispatched in one does not decrement the budget of the other
C25_DisjointInvocations ==
  /\ [](OwnConversation(Locals, who) /\ OwnConversation(parked, 3 - who))
  /\ [][Disjoint]_vars

\* both calls are in progress, one has answered a batch and spent a step,
\* the other still has its two first messages and its full budget
C25_Witness ==
  /\ pc = "asking" /\ Len(messages) = 2 /\ maxSteps = StepBudget
  /\ parked.pc = "asking" /\ parked.maxSteps = StepBudget - 1
  /\ Cardinality(Of(parked.messages, "tool")) = 2

(***************************************************************************)
(* C31, C32, C33, C36, C37                                                 *)
(***************************************************************************)
\* the locals of the processMessage that the handler of request r called
LocalsOf(r) == IF who = r THEN Locals ELSE parked

\* the callTool requests of the processMessage with locals L that await
\* the host
InFlight(L) == { j \in 1..Len(L.log) : L.log[j].sent /\ ~L.log[j].done }

\* C31: in a hosting server, whose requests share one agent, no two
\* callTool requests are in flight on the shared Client at the same time
C31_ToolCallsSerialized ==
  Cardinality(InFlight(Locals)) + Cardinality(InFlight(parked)) <= 1

\* C32: getAgent() constructs at most one OpenAIAgent and calls
\* initialize() at most once, and every getAgent() that returns, returns
\* that instance
C32_OneAgentPerProcess ==
  /\ built <= 1
  /\ inits <= built
  /\ agentInstance = built
  /\ \A r \in 1..2 : reqs[r].at \in {"resolved", "message"} => reqs[r].agent = 1
  /\ \A r \in 1..2 : reqs[r].agent \in {0, 1}

\* two requests were given the one agent, initialized once
C32_Witness ==
  /\ reqs[1].agent = 1 /\ reqs[2].agent = 1
  /\ reqs[2].at = "message"
  /\ built = 1 /\ inits = 1

\* C33: every agent that getAgent() resolves with has completed
\* initialize() successfully before it is handed to a handler
C33_HandedAgentsReady ==
  \A r \in 1..2 : reqs[r].agent # 0 => reqs[r].ready

\* C36: a response whose body has status "completed" is sent only when
\* the loop of processMessage ended with a final answer
C36_CompletedOnlyWhenDone ==
  \A r \in 1..2 : \A i \in 1..Len(reqs[r].responses) :
    Get(reqs[r].responses[i].body, <<"status">>) = Str(<<"completed">>)
      => LocalsOf(r).pc = "done"

\* the one response of a request that was answered
Answer(r) == reqs[r].responses[1]

\* the response is the 500 of the handler's catch, carrying the message of e
Carries(response, e) ==
  /\ response.code = 500
  /\ Get(response.body, <<"status">>) = Str(<<"error">>)
  /\ Get(Get(response.body, <<"data">>), <<"error">>) = Str(ErrorText(e))

\* C37: a request gets one response: 400, and no getAgent() nor
\* processMessage, when the destination is missing; 500 with the error
\* message when getAgent() or processMessage throws; otherwise the parsed
\* JSON of the result or, when the result is not JSON, the wrapper with
\* the result as summary and the destination as data
C37_OneResponsePerRequest ==
  \A r \in 1..2 :
    LET L == LocalsOf(r)
        d == reqs[r].destination
    IN  /\ Len(reqs[r].responses) = (IF reqs[r].at = "responded" THEN 1 ELSE 0)
        /\ reqs[r].at = "responded" =>
             IF d \in {Undefined, Str(<<>>)}
               THEN /\ Answer(r).code = 400
                    /\ reqs[r].agent = 0
                    /\ L.pc = "idle"
               ELSE IF reqs[r].agent = 0
                 THEN /\ L.pc = "idle"
                      /\ \/ ~apiKey /\ Carries(Answer(r), NoApiKey)
                         \/ apiKey /\ spc = "caught" /\ Carries(Answer(r), fatal.e)
               ELSE IF L.pc = "thrown"
                 THEN Carries(Answer(r), L.result.e)
               ELSE /\ L.pc \in {"done", "exhausted"}
                    /\ Answer(r).code = 200
                    /\ LET parsed == JSON_parse(L.result.v[2])
                       IN  IF parsed.ok
                             THEN Answer(r).body = parsed.v
                             ELSE /\ Get(Answer(r).body, <<"summary">>) = L.result.v
                                  /\ Get(Answer(r).body, <<"status">>)[1] = "str"
                                  /\ Get(Answer(r).body, <<"data">>)
                                       = Obj(<< <<<<"destination">>, d>> >>)

\* a request was answered with the parsed JSON of the final answer
C37_Witness ==
  /\ reqs[1].at = "responded"
  /\ Answer(1) = [code |-> 200, body |-> Obj(<< <<<<"status">>, Str(<<"success">>)>> >>)]
  /\ LocalsOf(1).pc = "done"
  /\ Cardinality(BatchesIn(LocalsOf(1).messages)) = 1

(***************************************************************************)
(* C34                                                                     *)
(***************************************************************************)
\* a step that changes the cached catalog is the assignment of line 30 of
\* initialize(), which stores what its listTools() returned; and the tool
\* list of a completion request is made from the cached catalog
CatalogKept ==
  /\ availableTools' # availableTools =>
       /\ spc = "init.listed" /\ spc' = "initialized"
       /\ availableTools' = lastOp.outcome.v[2]
  /\ (pc' = "asking" /\ spc # "init.listed") =>
       CompletionRequest(messages', availableTools').tools
         = ConvertToOpenAIFunctions(availableTools)

\* C34: the cached tool catalog is written only by initialize():
\* processMessage, executeBrowserTask, listCapabilities and cleanup leave
\* it unchanged, so every completion request between two initialize()
\* calls submits the same tool list
C34_CatalogWrittenByInitialize == [][CatalogKept]_vars

\* the catalog cached by initialize() is still there after a
\* listCapabilities(), an executeBrowserTask and a cleanup()
C34_Witness ==
  /\ availableTools = Catalog
  /\ spc = "exit0"
  /\ cleanups = 1
  /\ pc = "directDone"
  /\ lastOp.op = "disconnect"

(***************************************************************************)
(* C35                                                                     *)
(***************************************************************************)
\* the connection state of the Client: its flag, its transport, the host
\* processes it has running
Connection == <<connected, transport, spawned>>

\* a step of listTools, listResources, callTool or readResource: the
\* method is called, or the host answers it
MethodStep ==
  \/ pending' # pending
  \/ lastOp' # lastOp /\ lastOp'.op \in ClientOps

\* the four methods leave the connection state as it is; a step that
\* changes the flag belongs to a connect() or a disconnect() in progress
OnlyConnectAndDisconnect ==
  /\ MethodStep => Connection' = Connection
  /\ connected' # connected =>
       \/ \E c \in Connects : cpc[c] = "handshake" /\ cpc'[c] = "listing"
       \/ dpc = "transport" /\ dpc' = "none"

\* C35: callTool, listTools, listResources and readResource never change
\* the connection state of the Client, whether they succeed, fail as not
\* connected or fail with an error of the host; only connect() and
\* disconnect() change it
C35_MethodsKeepConnection == [][OnlyConnectAndDisconnect]_vars

\* a callTool failed with an error of the host, and the Client is still
\* connected
C35_Witness ==
  /\ lastOp.op = "callTool"
  /\ lastOp.sent
  /\ lastOp.outcome.threw
  /\ connected

(***************************************************************************)
(* C39                                                                     *)
(***************************************************************************)
\* the content items of a response (none when it has no content list)
ItemsOf(response) ==
  LET list == Get(response, <<"content">>)
  IN  IF list[1] = "arr" THEN list[2] ELSE <<>>

\* what the first content item alone stands for
ValueOfItem(item) ==
  IF Get(item, <<"type">>) # Str(<<"text">>) THEN item
  ELSE LET text == Get(item, <<"text">>)[2]
       IN  IF JSON_parse(text).ok THEN JSON_parse(text).v ELSE Str(text)

\* C39: the value callTool returns is determined by the first content item
\* of the response: the JSON-decoded value of a text item, or its raw text
\* when it is not JSON; a non-text item as it is; the whole response when
\* the content is missing or empty; the items after the first play no part
C39_FirstItemDecides ==
  (lastOp.op = "callTool" /\ lastOp.sent /\ ~lastOp.resp.threw) =>
    LET response == lastOp.resp.v
        items    == ItemsOf(response)
    IN  /\ ~lastOp.outcome.threw
        /\ items = <<>> => lastOp.outcome.v = response
        /\ items # <<>> =>
             /\ lastOp.outcome.v = ValueOfItem(Head(items))
             /\ lastOp.outcome.v = CallToolDecode(Response(<<Head(items)>>))

\* callTool returned the image item that came first, though a text item
\* that is JSON came after it
C39_Witness ==
  /\ lastOp.op = "callTool"
  /\ lastOp.sent
  /\ ~lastOp.resp.threw
  /\ Len(ItemsOf(lastOp.resp.v)) = 2
  /\ ItemsOf(lastOp.resp.v)[2] = TextItem(JSON_stringify(EchoResult))
  /\ lastOp.outcome = Returned(ImageItem)

(***************************************************************************)
(* C38                                                                     *)
(***************************************************************************)
\* a handler that has returned has no interval running, and one that was
\* given no progress token has sent no notification
TimerCleared ==
  \A i \in 1..2 :
    /\ tool[i].at = "returned" => tool[i].timer # "set"
    /\ tool[i].token = Undefined => tool[i].notes = <<>>

\* a handler that has returned sends nothing more, and the callback of the
\* timer runs only while the handler awaits the paid request
NothingAfterReturn ==
  \A i \in 1..2 :
    /\ tool[i].at = "returned" => tool'[i] = tool[i]
    /\ tool'[i].fired # tool[i].fired =>
         tool[i].at = "posting" /\ tool'[i].at = "posting"

\* C38: the progress timer of request_uber_evvm is cleared on every exit
\* path (success, failed request, failure while the result is built), so
\* that no notification of the timer is sent once the handler has returned;
\* and without a progress token no notification is sent at all
C38_TimerClearedOnExit == []TimerCleared /\ [][NothingAfterReturn]_vars

\* one call returned after a failed request, having sent timer-driven
\* notifications; the other got no token, its timer fired, and it returned
\* after a failure while the result was built
C38_Witness ==
  /\ tool[1].at = "returned" /\ tool[1].timer = "cleared"
  /\ tool[1].token = Str(<<"tok">>)
  /\ tool[1].fired = 3
  /\ \E k \in 1..Len(tool[1].notes) :
       tool[1].notes[k].by = "timer" /\ tool[1].notes[k].progress = 90
  /\ Get(Get(tool[1].returned, <<"data">>), <<"error">>)
       = Str(<<"Request failed with status code 402">>)
  /\ tool[2].at = "returned" /\ tool[2].timer = "cleared"
  /\ tool[2].token = Undefined
  /\ tool[2].fired >= 1
  /\ Get(Get(tool[2].returned, <<"data">>), <<"error">>) = Str(DecodeError.message)
=============================================================================
